---------------------------- MODULE Spec2Model ----------------------------
(***************************************************************************)
(* Tender-notice ingestion and decision pipeline (MVP/backend/app).        *)
(*                                                                         *)
(*   Spec      one call of analyzer.analyze_notice, split at its only      *)
(*             suspension point (await call_ollama)                        *)
(*   SpecScore analyze_notice up to the completion call, every rule input *)
(*   SpecGate  input_quality_gate.check_input_quality as a pure function   *)
(*   SpecCrawl runs of crawler.crawl_and_analyze over a Store              *)
(*   SpecRerun two consecutive runs over one list snapshot                 *)
(*   SpecKey   generate_canonical_key on pairs of list items               *)
(*   SpecFetch one call of crawl_notice_detail, tier by tier               *)
(*   SpecPass  one run of crawl_and_analyze, the detail fetch tier by tier *)
(*   SpecList  one call of crawl_notice_list, tier by tier                 *)
(*   SpecSave  concurrent calls of save_notice against one table           *)
(*   SpecPure  the pure functions of the analyzer on argument tuples       *)
(*   SpecRender one call of fetch_html_with_playwright, attempt by attempt *)
(*                                                                         *)
(* Texts are abstracted to the features the code reads from them (length,  *)
(* keyword hits, extracted tonnage, ...); Python None is <<>> and a        *)
(* present value v is <<v>> wherever a field is Optional.                  *)
(***************************************************************************)
EXTENDS Integers, Sequences, FiniteSets, TLC

VARIABLES
    pc,         \* analyze_notice: "start", "gated", "awaiting_llm", "done"
    quality,    \* status and reasons check_input_quality returned ("NONE" before, "RAISED" if it raised)
    rule,       \* what rule_score returned (status "NONE" before, "RAISED" if it raised)
    mismatched, \* is_clearly_mismatched(...)[0] of this call
    response,   \* outcome of call_ollama
    result,     \* dict returned by analyze_notice
    calls,      \* functions analyze_notice has called so far, in order
    faults,     \* the steps of analyze_notice that raised, in order
    gin,        \* SpecGate, SpecKey, SpecFetch, SpecPass, SpecList: arguments of the
                \* function under check
    gout,       \* the same: its progress and return value
    store,      \* SpecCrawl, SpecSave: rows of the notices table
    run,        \* SpecCrawl: state of the current crawl_and_analyze run;
                \* SpecSave: state of every caller of save_notice
    prev,       \* SpecCrawl: what the previous run left behind
    last        \* SpecCrawl: record of the last loop iteration

vars == <<pc, quality, rule, mismatched, response, result, calls, faults, gin, gout, store, run, prev, last>>

analyzeVars == <<pc, quality, rule, mismatched, response, result, calls, faults>>
gateVars    == <<gin, gout>>
crawlVars   == <<store, run, prev, last>>

----------------------------------------------------------------------------
(* Generic helpers *)

None == <<>>
Some(v) == <<v>>
IsNone(o) == o = <<>>
Val(o) == o[1]

Max(a, b) == IF a >= b THEN a ELSE b
Min(a, b) == IF a <= b THEN a ELSE b

InSeq(x, s) == \E i \in 1..Len(s) : s[i] = x

Count(x, s) == Cardinality({i \in 1..Len(s) : s[i] = x})

----------------------------------------------------------------------------
(* input_quality_gate.py *)

MinTextLen == 300
MinKeyFields == 2

KeySignals == {"location", "qualification", "scope", "deadline"}

\* Arguments of check_input_quality, as the features it reads:
\*   is_none  raw_text is None
\*   len      len(raw_text.strip())
\*   kw       signals whose keyword / pattern occurs in raw_text + " " + title
\*   fld      signals whose extracted_fields entry is non-empty
\*   ton_kw, ton_fld  the same two tests for tonnage
TextLens == {0, 250, MinTextLen - 1, MinTextLen, MinTextLen + 1}

GateInputs ==
    [is_none : BOOLEAN, len : TextLens, kw : SUBSET KeySignals, fld : SUBSET KeySignals,
     ton_kw : BOOLEAN, ton_fld : BOOLEAN]

NoQuality == [status |-> "NONE", key_fields_count |-> 0, has |-> {}, reasons |-> <<>>]
QualityRaised == [status |-> "RAISED", key_fields_count |-> 0, has |-> {}, reasons |-> <<>>]

\* the two increments per signal of lines 52-94: one for the keyword test, one for the field test
key_fields_count(g) == Cardinality(g.kw) + Cardinality(g.fld)

check_input_quality(g) ==
    IF g.is_none
    THEN QualityRaised                      \* len(None) at line 32 raises TypeError
    ELSE IF g.len < MinTextLen
    THEN [status |-> "INSUFFICIENT", key_fields_count |-> 0, has |-> {},
          reasons |-> <<"TEXT_TOO_SHORT">>]
    ELSE LET n   == key_fields_count(g)
             has == g.kw \cup g.fld
                    \cup (IF g.ton_kw \/ g.ton_fld THEN {"tonnage"} ELSE {})
         IN IF n < MinKeyFields
            THEN [status |-> "INSUFFICIENT", key_fields_count |-> n, has |-> has,
                  reasons |-> <<"KEY_FIELDS_INSUFFICIENT">>]
            ELSE [status |-> "GOOD", key_fields_count |-> n, has |-> has,
                  reasons |-> <<"QUALITY_GOOD">>]

\* f"输入质量不足：{'; '.join(quality_info['reasons'])}"
InsufficientReason(reasons) ==
    IF reasons = <<"TEXT_TOO_SHORT">> THEN "INPUT_QUALITY_INSUFFICIENT: TEXT_TOO_SHORT"
    ELSE IF reasons = <<"KEY_FIELDS_INSUFFICIENT">>
    THEN "INPUT_QUALITY_INSUFFICIENT: KEY_FIELDS_INSUFFICIENT"
    ELSE "INPUT_QUALITY_INSUFFICIENT: OTHER"

LowRuleScore == 20

EmptyKeyFields == {}

\* faulty variant: the score of a rejected notice is 0 instead of null
create_insufficient_info_result_zero(score, rule_reasons, q) ==
    [decision_state |-> "UNKNOWN",
     fit_label |-> "UNKNOWN",
     fit_score |-> Some(0),
     region_match |-> "UNKNOWN", scope_match |-> "UNKNOWN",
     scale_match |-> "UNKNOWN", qualification_match |-> "UNKNOWN",
     summary |-> "SUM_QUALITY_INSUFFICIENT",
     reasons |-> rule_reasons \o <<InsufficientReason(q.reasons)>>,
     risk_flags |-> <<"INSUFFICIENT_INFO">>
                    \o (IF score < LowRuleScore THEN <<"RULE_SCORE_LOW">> ELSE <<>>),
     key_fields |-> EmptyKeyFields,
     meta |-> [input_quality |-> "INSUFFICIENT", decision_source |-> "QUALITY_GATE",
               rule_score |-> Some(score)]]

create_insufficient_info_result(score, rule_reasons, q) ==
    [decision_state |-> "UNKNOWN",
     fit_label |-> "UNKNOWN",
     fit_score |-> None,
     region_match |-> "UNKNOWN", scope_match |-> "UNKNOWN",
     scale_match |-> "UNKNOWN", qualification_match |-> "UNKNOWN",
     summary |-> "SUM_QUALITY_INSUFFICIENT",
     reasons |-> rule_reasons \o <<InsufficientReason(q.reasons)>>,
     risk_flags |-> <<"INSUFFICIENT_INFO">>
                    \o (IF score < LowRuleScore THEN <<"RULE_SCORE_LOW">> ELSE <<>>),
     key_fields |-> EmptyKeyFields,
     meta |-> [input_quality |-> "INSUFFICIENT", decision_source |-> "QUALITY_GATE",
               rule_score |-> Some(score)]]

----------------------------------------------------------------------------
(* score_rules.py *)

\* scale_range of the company profile, as the comments of score_scale and the
\* risk flag of rule_score state it (200-3000 t accepted, 800-1200 t optimal, target 1000 t)
ScaleMin == 200
ScaleMax == 3000
OptimalMin == 800
OptimalMax == 1200
ScaleTarget == 1000

ScaleTopScore == 30
ScaleBandScore == 20
ScopeTypeScore == 15
ScopePrefScore == 10
QualCategoryScore == 8
MaxTotalScore == 100

MaxQualCategories == 3

\* region_priority scores of the profile (configuration); 0 stands for "no region keyword matched"
RegionScores == {0, 12, 40}

\* tonnage values extract_tonnage can return, None when no pattern matches
Tonnages == {None, Some(100), Some(500), Some(1000), Some(3000)}

\* Arguments of rule_score, as the features the sub-scorers read from the text:
\*   profile_ok  load_company_profile succeeds
\*   region      highest configured score among the regions with a keyword in the text
\*   tonnage     extract_tonnage(full_text)
\*   type_hit    some project-type keyword occurs; pref_hit: some preference keyword occurs
\*   quals       number of qualification categories with a keyword in the text
RuleInputs ==
    [profile_ok : BOOLEAN, region : RegionScores, tonnage : Tonnages,
     type_hit : BOOLEAN, pref_hit : BOOLEAN, quals : 0..MaxQualCategories]

extract_region_score(r) == r.region

score_scale(tonnage) ==
    IF IsNone(tonnage) THEN [score |-> 0, match |-> "UNKNOWN"]
    ELSE LET t == Val(tonnage) IN
         IF t < ScaleMin \/ t > ScaleMax THEN [score |-> 0, match |-> "LOW"]
         ELSE IF OptimalMin <= t /\ t <= OptimalMax
         THEN LET distance == IF t >= ScaleTarget THEN t - ScaleTarget ELSE ScaleTarget - t
              IN [score |-> Max(0, ScaleTopScore - (distance \div 10)), match |-> "HIGH"]
         ELSE IF ScaleMin <= t /\ t < OptimalMin
         THEN LET score == (ScaleBandScore * (t - ScaleMin)) \div (OptimalMin - ScaleMin)
              IN [score |-> score, match |-> IF score >= 10 THEN "MED" ELSE "LOW"]
         ELSE LET score == (ScaleBandScore * (ScaleMax - t)) \div (ScaleMax - OptimalMax)
              IN [score |-> score, match |-> IF score >= 10 THEN "MED" ELSE "LOW"]

score_scope(r) ==
    (IF r.type_hit THEN ScopeTypeScore ELSE 0) + (IF r.pref_hit THEN ScopePrefScore ELSE 0)

score_qualification(r) == QualCategoryScore * r.quals

NoRule == [status |-> "NONE", score |-> 0, reasons |-> <<>>, risk_flags |-> <<>>]
RuleRaised == [status |-> "RAISED", score |-> 0, reasons |-> <<>>, risk_flags |-> <<>>]

rule_reasons(region_score, scale_score, tonnage, scope_score, qual_score) ==
    LET rs == (IF region_score > 0 THEN <<"REGION_MATCH">> ELSE <<>>)
              \o (IF scale_score > 0
                  THEN <<"SCALE_MATCH">>
                       \o (IF ~IsNone(tonnage) /\ Val(tonnage) # 0
                           THEN <<"TONNAGE_EXTRACTED">> ELSE <<>>)
                  ELSE <<>>)
              \o (IF scope_score > 0 THEN <<"SCOPE_MATCH">> ELSE <<>>)
              \o (IF qual_score > 0 THEN <<"QUAL_MATCH">> ELSE <<>>)
    IN IF rs = <<>> THEN <<"NO_MATCH">> ELSE rs

\* the scale flag is formatted with the tonnage: it is never the bare string
\* "规模不在目标范围" that is_clearly_mismatched looks for
rule_risk_flags(region_score, scale_score, tonnage, scope_score, qual_score) ==
    (IF region_score = 0 THEN <<"REGION_NOT_PRIORITY">> ELSE <<>>)
    \o (IF scale_score = 0 /\ ~IsNone(tonnage) THEN <<"SCALE_OUT_OF_RANGE_DETAIL">> ELSE <<>>)
    \o (IF scope_score < 10 THEN <<"SCOPE_LOW">> ELSE <<>>)
    \o (IF qual_score < 8 THEN <<"QUAL_LOW">> ELSE <<>>)

\* faulty variant: the total is not capped
rule_score_uncapped(r) ==
    IF ~r.profile_ok
    THEN RuleRaised
    ELSE LET region_score == extract_region_score(r)
             scale_score  == score_scale(r.tonnage).score
             scope_score  == score_scope(r)
             qual_score   == score_qualification(r)
         IN [status |-> "OK",
             score |-> region_score + scale_score + scope_score + qual_score,
             reasons |-> rule_reasons(region_score, scale_score, r.tonnage, scope_score, qual_score),
             risk_flags |-> rule_risk_flags(region_score, scale_score, r.tonnage,
                                            scope_score, qual_score)]

rule_score(r) ==
    IF ~r.profile_ok
    THEN RuleRaised                         \* load_company_profile raises at line 180
    ELSE LET region_score == extract_region_score(r)
             scale_score  == score_scale(r.tonnage).score
             scope_score  == score_scope(r)
             qual_score   == score_qualification(r)
         IN [status |-> "OK",
             score |-> Min(MaxTotalScore, region_score + scale_score + scope_score + qual_score),
             reasons |-> rule_reasons(region_score, scale_score, r.tonnage, scope_score, qual_score),
             risk_flags |-> rule_risk_flags(region_score, scale_score, r.tonnage,
                                            scope_score, qual_score)]

NegativeFlags == {"REGION_NOT_PRIORITY", "SCALE_OUT_OF_RANGE", "SCOPE_LOW", "QUAL_LOW"}

VeryLowRuleScore == 10

\* faulty variant: the second test (low score with a concrete reason) is missing
is_clearly_mismatched_flags_only(score, reasons, risk_flags) ==
    IF score < VeryLowRuleScore /\ risk_flags # <<>>
       /\ \E f \in NegativeFlags : InSeq(f, risk_flags)
    THEN [mismatched |-> TRUE, reason |-> "VERY_LOW_WITH_NEGATIVE_FLAG"]
    ELSE [mismatched |-> FALSE, reason |-> "NOT_CLEARLY_MISMATCHED"]

is_clearly_mismatched(score, reasons, risk_flags) ==
    IF score < VeryLowRuleScore /\ risk_flags # <<>>
       /\ \E f \in NegativeFlags : InSeq(f, risk_flags)
    THEN [mismatched |-> TRUE, reason |-> "VERY_LOW_WITH_NEGATIVE_FLAG"]
    ELSE IF score < LowRuleScore /\ ~InSeq("NO_MATCH", reasons)
    THEN [mismatched |-> TRUE, reason |-> "LOW_WITH_CONCRETE_REASON"]
    ELSE [mismatched |-> FALSE, reason |-> "NOT_CLEARLY_MISMATCHED"]

----------------------------------------------------------------------------
(* ollama_client.py: what the completion service can answer *)

ValidStates == {"RECOMMEND", "REVIEW", "SKIP", "UNKNOWN"}

Absent == "<absent>"     \* the key is not in the JSON object
PyNone == "<None>"       \* the key is there with JSON null

\* fit_score values a JSON object can carry: missing, null, an integer, a float
\* (v in tenths), a non-numeric string
RawScore(kind, v) == [kind |-> kind, v |-> v]
ResponseScores ==
    {RawScore("absent", 0), RawScore("null", 0), RawScore("str", 0), RawScore("float", 857)}
    \cup {RawScore("int", v) : v \in {-5, 0, 35, 50, 85, 150}}

ResponseLabels == {Absent, PyNone, "RECOMMEND", " recommend ", "REVIEW", "SKIP", "UNKNOWN", "maybe"}
ResponseStates == {Absent, "RECOMMEND", "REVIEW", "SKIP", "UNKNOWN", "maybe"}
ResponseSummaries == {Absent, "SUM_PLAIN", "SUM_INFO_INSUFFICIENT"}

\* others_ok: the four match levels are present and are valid levels
ResponseObjects ==
    [decision_state : ResponseStates, fit_label : ResponseLabels, fit_score : ResponseScores,
     summary : ResponseSummaries, others_ok : BOOLEAN]

NoObject ==
    [decision_state |-> Absent, fit_label |-> Absent, fit_score |-> RawScore("absent", 0),
     summary |-> Absent, others_ok |-> FALSE]

\* Outcomes of call_ollama:
\*   raise    connection error, non-200 status or timeout (lines 42-51 re-raise as Exception)
\*   nonstr   the "response" member of the reply is not a string
\*   empty, garbage   "" / text that is no JSON and holds no JSON object
\*   json_null, json_list, json_number, json_string   JSON text of another shape
\*   object, wrapped_object   a JSON object, alone or surrounded by other text
NonObjectKinds ==
    {"raise", "nonstr", "empty", "garbage", "json_null", "json_list", "json_number", "json_string"}

Responses ==
    {[kind |-> k, obj |-> NoObject] : k \in NonObjectKinds}
    \cup {[kind |-> k, obj |-> o] : k \in {"object", "wrapped_object"}, o \in ResponseObjects}

NoResponse == [kind |-> "none", obj |-> NoObject]

\* parse_json_response: [status, shape, obj]; status "raised" when json.loads raises
\* TypeError (not caught by except json.JSONDecodeError), "none" when it returns None
parse_json_response(resp) ==
    CASE resp.kind \in {"empty", "garbage"} -> [status |-> "none", shape |-> "none", obj |-> NoObject]
      [] resp.kind = "json_null"   -> [status |-> "none", shape |-> "none", obj |-> NoObject]
      [] resp.kind = "nonstr"      -> [status |-> "raised", shape |-> "none", obj |-> NoObject]
      [] resp.kind = "json_list"   -> [status |-> "value", shape |-> "list", obj |-> NoObject]
      [] resp.kind = "json_number" -> [status |-> "value", shape |-> "number", obj |-> NoObject]
      [] resp.kind = "json_string" -> [status |-> "value", shape |-> "string", obj |-> NoObject]
      [] resp.kind \in {"object", "wrapped_object"}
                                   -> [status |-> "value", shape |-> "dict", obj |-> resp.obj]
      [] OTHER                     -> [status |-> "raised", shape |-> "none", obj |-> NoObject]

----------------------------------------------------------------------------
(* schema.py *)

FallbackScore == 50
MinFitScore == 0
MaxFitScore == 100

create_fallback_result(decision_source) ==
    [decision_state |-> "REVIEW",
     fit_label |-> "REVIEW",
     fit_score |-> Some(FallbackScore),
     region_match |-> "UNKNOWN", scope_match |-> "UNKNOWN",
     scale_match |-> "UNKNOWN", qualification_match |-> "UNKNOWN",
     summary |-> "SUM_FALLBACK",
     reasons |-> <<"LLM_OUTPUT_INVALID">>,
     risk_flags |-> <<"NEEDS_MANUAL_CONFIRMATION">>,
     key_fields |-> EmptyKeyFields,
     meta |-> [input_quality |-> Absent, decision_source |-> decision_source,
               rule_score |-> None]]

\* TenderAnalysisResult(**parsed_json): whether pydantic accepts the (coerced) object
TenderAnalysisResult_valid(o) ==
    /\ o.decision_state \in ValidStates
    /\ o.fit_label \in ValidStates
    /\ \/ o.fit_score.kind \in {"absent", "null"}
       \/ o.fit_score.kind = "int" /\ MinFitScore <= o.fit_score.v /\ o.fit_score.v <= MaxFitScore
    /\ o.others_ok

\* validated_result.model_dump()
model_dump(o) ==
    [decision_state |-> o.decision_state,
     fit_label |-> o.fit_label,
     fit_score |-> IF o.fit_score.kind = "int" THEN Some(o.fit_score.v) ELSE None,
     region_match |-> "MED", scope_match |-> "MED",
     scale_match |-> "MED", qualification_match |-> "MED",
     summary |-> IF o.summary = Absent THEN "" ELSE o.summary,
     reasons |-> <<"LLM_REASON">>,
     risk_flags |-> <<"LLM_RISK">>,
     key_fields |-> EmptyKeyFields,
     meta |-> [input_quality |-> Absent, decision_source |-> Absent, rule_score |-> None]]

----------------------------------------------------------------------------
(* analyzer.py *)

\* faulty variant: the label is compared as it came
UpperStrip_identity(label) == label

\* str(label).upper().strip() on the labels of the model
UpperStrip(label) ==
    CASE label = " recommend " -> "RECOMMEND"
      [] label = "Review"      -> "REVIEW"
      [] label = "skip"        -> "SKIP"
      [] label = "unknown "    -> "UNKNOWN"
      [] label = "   "         -> ""
      [] label = "null"        -> "NULL"
      [] label = "n/a"         -> "N/A"
      [] label = PyNone        -> "NONE"
      [] label = "maybe"       -> "MAYBE"
      [] OTHER                 -> label

UnknownSynonyms == {"-", "", "NULL", "NONE", "N/A"}

normalize_fit_label(label) ==
    LET label_upper == UpperStrip(label) IN
    IF label_upper \in ValidStates THEN label_upper
    ELSE IF label_upper \in UnknownSynonyms THEN "UNKNOWN"
    ELSE "REVIEW"

MismatchScoreThreshold == 40
MismatchScoreCap == 30
HighFitScore == 80
DowngradeCap == 60
DowngradePenalty == 20

\* faulty variant: no summary is taken for one that reports insufficient information
HasInsufficientKeyword_never(summary) == FALSE

\* any(kw in summary for kw in insufficient_keywords)
HasInsufficientKeyword(summary) == summary = "SUM_INFO_INSUFFICIENT"

\* Python truthiness of an Optional[int]: None and 0 are false
Truthy(score) == ~IsNone(score) /\ Val(score) # 0

\* faulty variant: correction 4 is missing
align_decision_state_missing(r) == r

\* correction 4 (lines 80-85): decision_state follows fit_label
align_decision_state(r) ==
    IF r.decision_state = Absent THEN [r EXCEPT !.decision_state = r.fit_label]
    ELSE IF r.decision_state # r.fit_label THEN [r EXCEPT !.decision_state = r.fit_label]
    ELSE r

check_consistency(res, rule_score_value, rule_is_mismatched) ==
    LET fit_score == res.fit_score
        summary   == res.summary
        r1 == [res EXCEPT !.fit_label = normalize_fit_label(res.fit_label)]
        r2 == IF rule_is_mismatched /\ r1.fit_label = "RECOMMEND"
              THEN [r1 EXCEPT !.fit_label = "SKIP", !.decision_state = "SKIP",
                              !.fit_score = IF Truthy(fit_score)
                                               /\ Val(fit_score) > MismatchScoreThreshold
                                            THEN Some(MismatchScoreCap) ELSE @]
              ELSE r1
        r3 == IF Truthy(fit_score) /\ Val(fit_score) >= HighFitScore
                 /\ HasInsufficientKeyword(summary)
              THEN [r2 EXCEPT !.fit_label = "REVIEW", !.decision_state = "REVIEW",
                              !.fit_score = Some(Min(DowngradeCap,
                                                     Val(fit_score) - DowngradePenalty))]
              ELSE r2
    IN align_decision_state(r3)

\* int(x) on a JSON value: None stands for "raises"
py_int(x) ==
    CASE x.kind = "int"   -> Some(x.v)
      [] x.kind = "float" -> Some(IF x.v >= 0 THEN x.v \div 10 ELSE -((-x.v) \div 10))
      [] OTHER            -> None

\* faulty variant: the score is not clamped
clamp_fit_score_identity(v) == v

clamp_fit_score(v) == Max(MinFitScore, Min(MaxFitScore, v))

\* lines 245-255, in place on parsed_json: [raised, obj]
coerce_parsed(o) ==
    LET has_score == o.fit_score.kind \notin {"absent", "null"} IN
    IF has_score /\ IsNone(py_int(o.fit_score))
    THEN [raised |-> TRUE, obj |-> o]
    ELSE LET o1 == IF has_score
                   THEN [o EXCEPT !.fit_score = RawScore("int", clamp_fit_score(Val(py_int(o.fit_score))))]
                   ELSE o
             o2 == IF o1.fit_label # Absent
                   THEN [o1 EXCEPT !.fit_label = normalize_fit_label(o1.fit_label)]
                   ELSE o1
             o3 == IF o2.decision_state = Absent
                   THEN [o2 EXCEPT !.decision_state =
                                      IF o2.fit_label # Absent THEN o2.fit_label ELSE "REVIEW"]
                   ELSE o2
         IN [raised |-> FALSE, obj |-> o3]

with_meta(res, input_quality, decision_source, rule_score_value) ==
    [res EXCEPT !.meta = [input_quality |-> input_quality, decision_source |-> decision_source,
                          rule_score |-> rule_score_value]]

\* lines 308-320
system_error_result ==
    [create_fallback_result("SYSTEM_ERROR") EXCEPT
        !.summary = "SUM_SYSTEM_ERROR",
        !.reasons = <<"SYSTEM_ERROR_NEEDS_REVIEW">>,
        !.risk_flags = <<"ANALYSIS_FLOW_ABNORMAL">>,
        !.meta = [@ EXCEPT !.input_quality = "UNKNOWN", !.decision_source = "FALLBACK"]]

\* lines 130-140
quality_gate_result(rs, q) ==
    with_meta(create_insufficient_info_result(rs.score, rs.reasons, q),
              "INSUFFICIENT", "QUALITY_GATE", Some(rs.score))

RuleSkipCap == 30
RuleLowLevel == 10

\* faulty variant: max for min in the score cap of the shortcut
rule_mismatch_result_max(rs) ==
    LET level == IF rs.score < RuleLowLevel THEN "LOW" ELSE "UNKNOWN" IN
    [decision_state |-> "SKIP",
     fit_label |-> "SKIP",
     fit_score |-> Some(Max(0, Max(RuleSkipCap, rs.score))),
     region_match |-> level, scope_match |-> level,
     scale_match |-> level, qualification_match |-> level,
     summary |-> "SUM_RULE_MISMATCH",
     reasons |-> rs.reasons,
     risk_flags |-> rs.risk_flags,
     key_fields |-> EmptyKeyFields,
     meta |-> [input_quality |-> "GOOD", decision_source |-> "RULE",
               rule_score |-> Some(rs.score)]]

\* lines 163-189; extracted_fields are copied into key_fields
rule_mismatch_result(rs) ==
    LET level == IF rs.score < RuleLowLevel THEN "LOW" ELSE "UNKNOWN" IN
    [decision_state |-> "SKIP",
     fit_label |-> "SKIP",
     fit_score |-> Some(Max(0, Min(RuleSkipCap, rs.score))),
     region_match |-> level, scope_match |-> level,
     scale_match |-> level, qualification_match |-> level,
     summary |-> "SUM_RULE_MISMATCH",
     reasons |-> rs.reasons,
     risk_flags |-> rs.risk_flags,
     key_fields |-> EmptyKeyFields,
     meta |-> [input_quality |-> "GOOD", decision_source |-> "RULE",
               rule_score |-> Some(rs.score)]]

\* faulty variant: the fallback does not record the rule score
llm_fallback_result_no_score(decision_source, summary, rs) ==
    with_meta([create_fallback_result(decision_source) EXCEPT
                  !.summary = summary, !.reasons = rs.reasons, !.risk_flags = rs.risk_flags],
              "GOOD", decision_source, None)

\* lines 216-224 and 231-239
llm_fallback_result(decision_source, summary, rs) ==
    with_meta([create_fallback_result(decision_source) EXCEPT
                  !.summary = summary, !.reasons = rs.reasons, !.risk_flags = rs.risk_flags],
              "GOOD", decision_source, Some(rs.score))

\* lines 266-289 for a dict parsed_json (as coerce_parsed left it)
schema_error_result(o, rs) ==
    LET base == [create_fallback_result("SCHEMA_ERROR") EXCEPT
                    !.summary = IF o.summary # Absent THEN o.summary ELSE "SUM_SCHEMA_ERROR",
                    !.reasons = rs.reasons, !.risk_flags = rs.risk_flags]
        has_score == o.fit_score.kind \notin {"absent", "null"}
        salvaged == IF has_score /\ ~IsNone(py_int(o.fit_score))
                    THEN LET label == normalize_fit_label(IF o.fit_label # Absent
                                                          THEN o.fit_label ELSE "REVIEW")
                         IN [base EXCEPT
                                !.fit_score = Some(clamp_fit_score(Val(py_int(o.fit_score)))),
                                !.fit_label = label,
                                !.decision_state = label]
                    ELSE base
    IN with_meta(salvaged, "GOOD", "SCHEMA_ERROR", Some(rs.score))

\* faulty variant: check_consistency is told the rule engine judged a clear mismatch
validate_dict_forced_mismatch(o, rs, is_mismatched) ==
    LET c == coerce_parsed(o) IN
    IF c.raised
    THEN [result |-> schema_error_result(c.obj, rs), calls |-> <<>>,
          faults |-> <<"validation">>]
    ELSE IF ~TenderAnalysisResult_valid(c.obj)
    THEN [result |-> schema_error_result(c.obj, rs), calls |-> <<"TenderAnalysisResult">>,
          faults |-> <<"validation">>]
    ELSE [result |-> with_meta(check_consistency(model_dump(c.obj), rs.score, TRUE),
                               "GOOD", "LLM", Some(rs.score)),
          calls |-> <<"TenderAnalysisResult", "check_consistency">>,
          faults |-> <<>>]

\* lines 244-306 for a dict parsed_json
validate_dict(o, rs, is_mismatched) ==
    LET c == coerce_parsed(o) IN
    IF c.raised
    THEN [result |-> schema_error_result(c.obj, rs), calls |-> <<>>,
          faults |-> <<"validation">>]
    ELSE IF ~TenderAnalysisResult_valid(c.obj)
    THEN [result |-> schema_error_result(c.obj, rs), calls |-> <<"TenderAnalysisResult">>,
          faults |-> <<"validation">>]
    ELSE [result |-> with_meta(check_consistency(model_dump(c.obj), rs.score, is_mismatched),
                               "GOOD", "LLM", Some(rs.score)),
          calls |-> <<"TenderAnalysisResult", "check_consistency">>,
          faults |-> <<>>]

\* an exception on its way out of the try body of lines 116-306, as a value
Propagated ==
    [create_fallback_result("<exception>") EXCEPT
        !.decision_state = "<exception>", !.fit_label = "<exception>"]

\* faulty variant: no handler at the top level
outer_except_missing(res) == res

\* lines 308-320: except Exception at the top level of analyze_notice
outer_except(res) ==
    IF res.decision_state = "<exception>" THEN system_error_result ELSE res

\* lines 244-289 for a parsed_json that is no dict:
\*   list / str: the membership tests are False, .get raises AttributeError, the handler's
\*               own membership tests are False again: plain SCHEMA_ERROR fallback
\*   number:     'fit_score' in parsed_json raises TypeError, and so does the handler's
\*               "summary" in parsed_json: the exception leaves the handler
validate_non_dict(shape, rs) ==
    IF shape \in {"list", "string"}
    THEN [result |-> schema_error_result(NoObject, rs), calls |-> <<>>,
          faults |-> <<"validation">>]
    ELSE [result |-> Propagated, calls |-> <<>>,
          faults |-> <<"validation", "schema_error_handler">>]

\* faulty variant: the early return of the quality gate is missing
gate_rejects_never(q) == FALSE

\* line 121
gate_rejects(q) == q.status = "INSUFFICIENT"

\* the try body from the return of check_input_quality up to "await call_ollama(prompt)"
\* or an earlier return (lines 121-212); q is what check_input_quality returned
analyze_after_gate(q, r, prompt_ok) ==
    LET rs == rule_score(r) IN
    IF rs.status = "RAISED"
    THEN [pc |-> "done", rule |-> rs, mismatched |-> FALSE,
          result |-> Propagated, calls |-> <<"rule_score">>, faults |-> <<"rule_score">>]
    ELSE IF gate_rejects(q)
    THEN [pc |-> "done", rule |-> rs, mismatched |-> FALSE,
          result |-> quality_gate_result(rs, q),
          calls |-> <<"rule_score", "create_insufficient_info_result">>, faults |-> <<>>]
    ELSE LET m == is_clearly_mismatched(rs.score, rs.reasons, rs.risk_flags) IN
         IF m.mismatched
         THEN [pc |-> "done", rule |-> rs, mismatched |-> TRUE,
               result |-> rule_mismatch_result(rs),
               calls |-> <<"rule_score", "is_clearly_mismatched">>, faults |-> <<>>]
         ELSE IF ~prompt_ok
         THEN [pc |-> "done", rule |-> rs, mismatched |-> FALSE,
               result |-> Propagated,
               calls |-> <<"rule_score", "is_clearly_mismatched", "build_analysis_prompt">>,
               faults |-> <<"build_analysis_prompt">>]
         ELSE [pc |-> "awaiting_llm", rule |-> rs, mismatched |-> FALSE,
               result |-> Propagated,
               calls |-> <<"rule_score", "is_clearly_mismatched", "build_analysis_prompt",
                           "call_ollama">>,
               faults |-> <<>>]

\* the try body from the return of call_ollama on (lines 213-306)
analyze_after_await(rs, is_mismatched, resp) ==
    IF resp.kind = "raise"
    THEN [result |-> llm_fallback_result("LLM_ERROR", "SUM_LLM_ERROR", rs), calls |-> <<>>,
          faults |-> <<"call_ollama">>]
    ELSE LET p == parse_json_response(resp) IN
         IF p.status = "raised"
         THEN [result |-> Propagated, calls |-> <<"parse_json_response">>,
               faults |-> <<"parse_json_response">>]
         ELSE IF p.status = "none"
         THEN [result |-> llm_fallback_result("LLM_PARSE_ERROR", "SUM_PARSE_ERROR", rs),
               calls |-> <<"parse_json_response">>, faults |-> <<>>]
         ELSE LET v == IF p.shape = "dict" THEN validate_dict(p.obj, rs, is_mismatched)
                       ELSE validate_non_dict(p.shape, rs)
              IN [result |-> v.result, calls |-> <<"parse_json_response">> \o v.calls,
                  faults |-> v.faults]

\* the whole of analyze_notice: the dict it returns
analyze_notice(g, r, prompt_ok, resp) ==
    LET q == check_input_quality(g) IN
    IF q.status = "RAISED" THEN outer_except(Propagated)
    ELSE LET a == analyze_after_gate(q, r, prompt_ok) IN
         IF a.pc = "done" THEN outer_except(a.result)
         ELSE outer_except(analyze_after_await(a.rule, a.mismatched, resp).result)

----------------------------------------------------------------------------
(* Spec: one call of analyze_notice *)

\* the texts analyze_notice is run on: every region score, without and with an optimal
\* tonnage, none or all of the scope keywords, none or all qualification categories
AnalyzeRuleInputs ==
    {r \in RuleInputs : /\ r.tonnage \in {None, Some(ScaleTarget)}
                        /\ r.type_hit = r.pref_hit
                        /\ r.quals \in {0, MaxQualCategories}}

NoResult == [system_error_result EXCEPT !.summary = "SUM_NOT_RETURNED"]

AnalyzeInit ==
    /\ pc = "start"
    /\ quality = [status |-> "NONE", reasons |-> <<>>]
    /\ rule = NoRule
    /\ mismatched = FALSE
    /\ response = NoResponse
    /\ result = NoResult
    /\ calls = <<>>
    /\ faults = <<>>

GateIdle ==
    /\ gin = [is_none |-> FALSE, len |-> 0, kw |-> {}, fld |-> {},
              ton_kw |-> FALSE, ton_fld |-> FALSE]
    /\ gout = NoQuality

CrawlIdle == store = <<>> /\ run = <<>> /\ prev = <<>> /\ last = <<>>

\* line 119: the quality gate; of quality_info the code reads status and reasons afterwards
QualityGate ==
    /\ pc = "start"
    /\ \E g \in GateInputs :
          LET q == check_input_quality(g) IN
          /\ quality' = [status |-> q.status, reasons |-> q.reasons]
          /\ calls' = calls \o <<"check_input_quality">>
          /\ IF q.status = "RAISED"
             THEN /\ pc' = "done"
                  /\ result' = outer_except(Propagated)
                  /\ faults' = faults \o <<"check_input_quality">>
             ELSE /\ pc' = "gated"
                  /\ UNCHANGED <<result, faults>>
    /\ UNCHANGED <<rule, mismatched, response>>
    /\ UNCHANGED <<gateVars, crawlVars>>

\* lines 121-212: rule scoring, the two early returns, the prompt, the call, on a text
\* whose rule features are drawn from rule_inputs
ScoreAndDecideOn(rule_inputs) ==
    /\ pc = "gated"
    /\ \E r \in rule_inputs, prompt_ok \in BOOLEAN :
          LET a == analyze_after_gate(quality, r, prompt_ok) IN
          /\ pc' = a.pc
          /\ rule' = a.rule
          /\ mismatched' = a.mismatched
          /\ result' = IF a.pc = "done" THEN outer_except(a.result) ELSE result
          /\ calls' = calls \o a.calls
          /\ faults' = faults \o a.faults
    /\ UNCHANGED <<quality, response>>
    /\ UNCHANGED <<gateVars, crawlVars>>

ScoreAndDecide == ScoreAndDecideOn(AnalyzeRuleInputs)

\* lines 213-320: call_ollama returns or raises
CompletionReturns ==
    /\ pc = "awaiting_llm"
    /\ \E resp \in Responses :
          LET a == analyze_after_await(rule, mismatched, resp) IN
          /\ response' = resp
          /\ result' = outer_except(a.result)
          /\ calls' = calls \o a.calls
          /\ faults' = faults \o a.faults
    /\ pc' = "done"
    /\ UNCHANGED <<quality, rule, mismatched>>
    /\ UNCHANGED <<gateVars, crawlVars>>

Init == AnalyzeInit /\ GateIdle /\ CrawlIdle

Next == QualityGate \/ ScoreAndDecide \/ CompletionReturns

Spec == Init /\ [][Next]_vars

----------------------------------------------------------------------------
(* Properties of analyze_notice (Spec) *)

Returned == pc = "done"

CompletionCalls == Count("call_ollama", calls)
RuleScoreCalls == Count("rule_score", calls)

\* C1: every decision analyze_notice returns has decision_state = fit_label, on every
\* path and whatever decision_state and fit_label the model emitted.
C1_DecisionStateIsFitLabel ==
    Returned => result.decision_state = result.fit_label

\* C1 witness: the model answered RECOMMEND / SKIP and the caller got SKIP / SKIP
C1_Witness ==
    /\ Returned
    /\ result.meta.decision_source = "LLM"
    /\ response.obj.decision_state = "RECOMMEND"
    /\ response.obj.fit_label = "SKIP"
    /\ result.decision_state = "SKIP"

\* C2: for every decision analyze_notice returns, fit_score is None if and only if
\* decision_state is UNKNOWN. (The code does not enforce it on the model's answer.)
C2_FitScoreAbsentIffUnknown ==
    Returned => (IsNone(result.fit_score) <=> result.decision_state = "UNKNOWN")

\* a failure that no more specific handler (LLM_ERROR, SCHEMA_ERROR) answered
Unhandled ==
    /\ faults # <<>>
    /\ faults[Len(faults)] \notin {"call_ollama", "validation"}

\* C3: analyze_notice never propagates an exception: whatever step raises, it returns a
\* decision, and a failure not handled by a more specific fallback yields REVIEW.
C3_NeverPropagates ==
    Returned => /\ result.decision_state \in ValidStates
                /\ result.fit_label \in ValidStates
                /\ Unhandled => result.decision_state = "REVIEW"

\* C3 witness: the model answered a bare JSON number; the validation and then the
\* SCHEMA_ERROR handler raised, and the caller got the REVIEW fallback
C3_Witness ==
    /\ Returned
    /\ faults = <<"validation", "schema_error_handler">>
    /\ response.kind = "json_number"
    /\ result.decision_state = "REVIEW"

QualityGateDecision ==
    /\ result.decision_state = "UNKNOWN"
    /\ IsNone(result.fit_score)
    /\ InSeq(InsufficientReason(quality.reasons), result.reasons)
    /\ result.meta.decision_source = "QUALITY_GATE"

\* C6 as stated: whenever check_input_quality returns INSUFFICIENT, analyze_notice returns
\* UNKNOWN, no fit_score, the quality-gate reasons, source QUALITY_GATE, and the
\* completion service is never called.
C6_Original ==
    (Returned /\ quality.status = "INSUFFICIENT")
        => (QualityGateDecision /\ CompletionCalls = 0)

\* C6 amended: ... provided the rule_score call analyze_notice makes on that path
\* returns; when it raises, the decision is the top-level REVIEW fallback. The completion
\* service is called in neither case.
C6_InsufficientGivesUnknown ==
    (Returned /\ quality.status = "INSUFFICIENT")
        => /\ CompletionCalls = 0
           /\ rule.status = "OK" => QualityGateDecision
           /\ rule.status = "RAISED" => result = system_error_result

\* C6 witness: a rejected notice, scored for the record, answered UNKNOWN
C6_Witness ==
    /\ Returned
    /\ quality.status = "INSUFFICIENT"
    /\ quality.reasons = <<"KEY_FIELDS_INSUFFICIENT">>
    /\ rule.status = "OK"
    /\ result.decision_state = "UNKNOWN"
    /\ IsNone(result.fit_score)

\* C7 as stated: on every execution in which the quality gate returns INSUFFICIENT,
\* rule_score is not invoked at all.
C7_Original ==
    quality.status = "INSUFFICIENT" => RuleScoreCalls = 0

\* C7 amended: on every execution in which the quality gate returns INSUFFICIENT,
\* rule_score is invoked exactly once (its score goes into the decision) and nothing else
\* of the scoring / LLM path is: no mismatch test, no prompt, no completion call; the
\* decision is UNKNOWN as soon as that rule_score call returns.
C7_GateRejectsBeforeLlmWork ==
    (Returned /\ quality.status = "INSUFFICIENT")
        => /\ RuleScoreCalls = 1
           /\ Count("is_clearly_mismatched", calls) = 0
           /\ Count("build_analysis_prompt", calls) = 0
           /\ CompletionCalls = 0
           /\ rule.status = "OK" =>
                 /\ calls = <<"check_input_quality", "rule_score",
                              "create_insufficient_info_result">>
                 /\ result.decision_state = "UNKNOWN"

\* C7 witness: a rejected notice whose only calls were the gate, rule_score and the
\* construction of the UNKNOWN decision
C7_Witness ==
    /\ Returned
    /\ quality.status = "INSUFFICIENT"
    /\ quality.reasons = <<"TEXT_TOO_SHORT">>
    /\ calls = <<"check_input_quality", "rule_score", "create_insufficient_info_result">>
    /\ result.meta.rule_score = Some(rule.score)

\* C9: whenever the quality gate is GOOD and is_clearly_mismatched holds for the rule
\* score result, analyze_notice returns SKIP with fit_score = min(30, rule score), all
\* four match levels LOW or UNKNOWN, source RULE, and never calls the completion service.
C9_MismatchShortcut ==
    (/\ Returned
     /\ quality.status = "GOOD"
     /\ rule.status = "OK"
     /\ is_clearly_mismatched(rule.score, rule.reasons, rule.risk_flags).mismatched)
        => /\ result.decision_state = "SKIP"
           /\ result.fit_score = Some(Min(30, rule.score))
           /\ {result.region_match, result.scope_match, result.scale_match,
               result.qualification_match} \subseteq {"LOW", "UNKNOWN"}
           /\ result.meta.decision_source = "RULE"
           /\ CompletionCalls = 0

\* C9 witness: a GOOD notice with rule score 12 answered SKIP / 12 by the rule engine
C9_Witness ==
    /\ Returned
    /\ quality.status = "GOOD"
    /\ rule.score = 12
    /\ mismatched
    /\ result.decision_state = "SKIP"
    /\ result.fit_score = Some(12)
    /\ result.region_match = "UNKNOWN"

\* C10: any failure of the completion call makes analyze_notice return REVIEW with
\* source LLM_ERROR and the rule score in the metadata, never an exception.
C10_CompletionFailure ==
    (Returned /\ response.kind = "raise")
        => /\ result.decision_state = "REVIEW"
           /\ result.fit_label = "REVIEW"
           /\ result.meta.decision_source = "LLM_ERROR"
           /\ result.meta.rule_score = Some(rule.score)

\* C10 witness: call_ollama raised and the caller got the LLM_ERROR fallback
C10_Witness ==
    /\ Returned
    /\ response.kind = "raise"
    /\ faults = <<"call_ollama">>
    /\ CompletionCalls = 1
    /\ result.meta.decision_source = "LLM_ERROR"
    /\ rule.score >= LowRuleScore

\* the answers of the completion service that are no single JSON object
UnparseableKinds ==
    {"empty", "garbage", "json_null", "json_list", "json_number", "json_string"}

\* C11: whenever the completion response cannot be parsed as a single JSON object
\* (empty text, text that is no JSON, JSON that is a list, a number, a string or null),
\* analyze_notice returns REVIEW tagged LLM_PARSE_ERROR. (A list or a string reaches the
\* validation and is tagged SCHEMA_ERROR; a number is tagged FALLBACK.)
C11_UnparseableIsParseError ==
    (Returned /\ response.kind \in UnparseableKinds)
        => /\ result.decision_state = "REVIEW"
           /\ result.meta.decision_source = "LLM_PARSE_ERROR"

\* C12: whenever the validation of the parsed model output fails, the decision is
\* labelled REVIEW (decision_state = fit_label = REVIEW), whatever label and score the
\* invalid output carried. (The SCHEMA_ERROR handler takes label and score over from
\* the invalid output when the score converts to an integer.)
C12_InvalidOutputIsReview ==
    (Returned /\ faults = <<"validation">>)
        => /\ result.decision_state = "REVIEW"
           /\ result.fit_label = "REVIEW"

\* C22 as stated: every decision analyze_notice returns, on every path including the
\* top-level exception fallback, carries metadata with the rule score, the
\* input-quality status and the decision source.
C22_MetaIsComplete ==
    Returned => /\ ~IsNone(result.meta.rule_score)
                /\ result.meta.input_quality # Absent
                /\ result.meta.decision_source # Absent

\* C23 as stated: the decision source names the path that produced the decision:
\* QUALITY_GATE exactly for a quality-gate rejection, RULE exactly for the mismatch
\* shortcut, LLM exactly for a validated model response, LLM_ERROR for a completion
\* transport failure, LLM_PARSE_ERROR for a parse failure, SYSTEM_ERROR for an
\* unexpected exception caught at the top level.
C23_SourceNamesPath ==
    Returned =>
       /\ result.meta.decision_source = "QUALITY_GATE"
             <=> (quality.status = "INSUFFICIENT" /\ faults = <<>>)
       /\ result.meta.decision_source = "RULE" <=> (mismatched /\ faults = <<>>)
       /\ result.meta.decision_source = "LLM" <=> InSeq("check_consistency", calls)
       /\ faults = <<"call_ollama">> => result.meta.decision_source = "LLM_ERROR"
       /\ response.kind \in UnparseableKinds
             => result.meta.decision_source = "LLM_PARSE_ERROR"
       /\ Unhandled => result.meta.decision_source = "SYSTEM_ERROR"

\* the fit_score the model sent, as an integer in [0,100]; None when it sent none or
\* one that is no number
ModelScore ==
    LET s == response.obj.fit_score IN
    CASE s.kind = "int"   -> Some(Max(0, Min(100, s.v)))
      [] s.kind = "float" -> Some(Max(0, Min(100, s.v \div 10)))
      [] OTHER            -> None

HighScoreButInsufficient ==
    /\ ~IsNone(ModelScore)
    /\ Val(ModelScore) >= 80
    /\ response.obj.summary = "SUM_INFO_INSUFFICIENT"

\* C27: for every validated model result with fit_score >= 80 whose summary contains an
\* insufficient-information indicator, the final decision is REVIEW (decision_state =
\* fit_label = REVIEW) with fit_score = min(60, fit_score - 20), whatever label the model
\* emitted; a result with fit_score < 80 or without an indicator keeps its score, its
\* normalised label and its summary.
C27_HighScoreInsufficientIsReview ==
    (Returned /\ result.meta.decision_source = "LLM")
        => IF HighScoreButInsufficient
           THEN /\ result.decision_state = "REVIEW"
                /\ result.fit_label = "REVIEW"
                /\ result.fit_score = Some(Min(60, Val(ModelScore) - 20))
           ELSE /\ result.fit_score = ModelScore
                /\ result.fit_label = normalize_fit_label(response.obj.fit_label)
                /\ result.decision_state = result.fit_label
                /\ response.obj.summary # Absent => result.summary = response.obj.summary

\* C27 witness: the model answered RECOMMEND with a score above 100 and a summary that
\* says the information is insufficient; the caller got REVIEW with 60
C27_Witness ==
    /\ Returned
    /\ result.meta.decision_source = "LLM"
    /\ response.obj.fit_label = "RECOMMEND"
    /\ response.obj.fit_score = RawScore("int", 150)
    /\ response.obj.summary = "SUM_INFO_INSUFFICIENT"
    /\ result.decision_state = "REVIEW"
    /\ result.fit_score = Some(60)

\* C28: every decision analyze_notice returns has a fit_score that is absent or an
\* integer in [0,100], whatever value (negative, above 100, non-integer, non-numeric)
\* the model returned for it.
C28_FitScoreInRange ==
    Returned => \/ IsNone(result.fit_score)
                \/ /\ Val(result.fit_score) \in Int
                   /\ 0 <= Val(result.fit_score)
                   /\ Val(result.fit_score) <= 100

\* C28 witness: the model answered with a negative score and the validated decision
\* carries 0
C28_Witness ==
    /\ Returned
    /\ result.meta.decision_source = "LLM"
    /\ response.obj.fit_score = RawScore("int", -5)
    /\ result.fit_score = Some(0)

\* C36: within analyze_notice, check_consistency is only ever reached with
\* rule_is_mismatched = false, so the correction that forces SKIP on a model RECOMMEND
\* never fires through analyze_notice: a model-sourced RECOMMEND is downgraded only by
\* the high-score / insufficient-information correction.
C36_ConsistencyNeverSeesMismatch ==
    /\ InSeq("call_ollama", calls) => ~mismatched
    /\ InSeq("check_consistency", calls) => ~mismatched
    /\ (/\ Returned
        /\ InSeq("check_consistency", calls)
        /\ normalize_fit_label(response.obj.fit_label) = "RECOMMEND")
          => \/ result.fit_label = "RECOMMEND"
             \/ HighScoreButInsufficient /\ result.fit_label = "REVIEW"

\* C36 witness: the model's RECOMMEND passed check_consistency unchanged, with a rule
\* score the rule engine did not judge a mismatch
C36_Witness ==
    /\ Returned
    /\ InSeq("check_consistency", calls)
    /\ ~mismatched
    /\ response.obj.fit_label = "RECOMMEND"
    /\ result.fit_label = "RECOMMEND"
    /\ result.decision_state = "RECOMMEND"
    /\ result.meta.decision_source = "LLM"

----------------------------------------------------------------------------
(* SpecScore: analyze_notice up to the completion call, on every rule input *)

\* lines 145-212 on any text
ScoreAnyText == ScoreAndDecideOn(RuleInputs)

NextScore == QualityGate \/ ScoreAnyText

SpecScore == Init /\ [][NextScore]_vars

\* rule_score returned and is_clearly_mismatched was applied to its triple
MismatchDecided == InSeq("is_clearly_mismatched", calls)

\* C35: for every (score, reasons, risk_flags) triple rule_score produces with
\* non-negative region scores, is_clearly_mismatched is true iff score < 20; so
\* analyze_notice calls the completion service only for notices whose quality is GOOD
\* and whose rule score is at least 20, and answers every GOOD notice with rule score
\* below 20 with a rule-sourced SKIP.
C35_MismatchedIffBelowTwenty ==
    /\ MismatchDecided => (mismatched <=> rule.score < 20)
    /\ rule.status = "OK"
          => (is_clearly_mismatched(rule.score, rule.reasons, rule.risk_flags).mismatched
                 <=> rule.score < 20)
    /\ InSeq("call_ollama", calls) => (quality.status = "GOOD" /\ rule.score >= 20)
    /\ (Returned /\ quality.status = "GOOD" /\ rule.status = "OK" /\ rule.score < 20)
          => /\ result.decision_state = "SKIP"
             /\ result.meta.decision_source = "RULE"
             /\ ~InSeq("call_ollama", calls)

\* C35 witness: a GOOD text with a low-priority region and nothing else scored 12 with a
\* concrete reason and got the rule-sourced SKIP without a completion call
C35_Witness ==
    /\ Returned
    /\ quality.status = "GOOD"
    /\ rule.status = "OK"
    /\ rule.score \in 10..19
    /\ ~InSeq("NO_MATCH", rule.reasons)
    /\ mismatched
    /\ result.decision_state = "SKIP"
    /\ result.meta.decision_source = "RULE"
    /\ ~InSeq("call_ollama", calls)

----------------------------------------------------------------------------
(* SpecGate: check_input_quality on every argument *)

GateInit ==
    /\ gin \in GateInputs
    /\ gout = NoQuality

CheckInputQuality ==
    /\ gout = NoQuality
    /\ gout' = check_input_quality(gin)
    /\ UNCHANGED gin
    /\ UNCHANGED <<analyzeVars, crawlVars>>

InitGate == AnalyzeInit /\ GateInit /\ CrawlIdle

NextGate == CheckInputQuality

SpecGate == InitGate /\ [][NextGate]_vars

GateReturned == gout.status \in {"GOOD", "INSUFFICIENT"}

\* the signals of {location, qualification, scope, deadline} that are present, each once
DistinctSignals == gin.kw \cup gin.fld

\* C8: check_input_quality returns GOOD if and only if the text has at least 300
\* characters and at least 2 distinct signals among location, qualification, scope,
\* deadline are present, a signal detected by keyword and by field counting once;
\* otherwise INSUFFICIENT; tonnage never affects the verdict. (The code counts a
\* signal twice when both its keyword and its field are there.)
C8_GoodIffTwoDistinctSignals ==
    GateReturned =>
        (gout.status = "GOOD"
            <=> (gin.len >= 300 /\ Cardinality(DistinctSignals) >= 2))

----------------------------------------------------------------------------
(* crawler/powerchina_crawler.py and db/operations.py *)

Titles == {"A", "B"}

NoSourceId == ""
SourceIds == {"n7"}

\* hashlib.md5(title.encode('utf-8')).hexdigest()[:8]
TitleHash8(title) ==
    CASE title = "A" -> "7fc56270"
      [] title = "B" -> "9d5ed678"

\* faulty variant: the list index goes into the key of an item that has an id
generate_canonical_key_indexed(source_item_id, index, title) ==
    [id |-> source_item_id, index |-> index,
     hash |-> IF source_item_id # NoSourceId THEN "" ELSE TitleHash8(title)]

\* "powerchina:<id>" or "powerchina:index_<index>_hash_<hash>", as the parts of the string
generate_canonical_key(source_item_id, index, title) ==
    IF source_item_id # NoSourceId
    THEN [id |-> source_item_id, index |-> 0, hash |-> ""]
    ELSE [id |-> NoSourceId, index |-> index, hash |-> TitleHash8(title)]

\* Extracted body texts: "" when extract_raw_text finds nothing, else one of
\*   short     fewer than 300 characters
\*   fit       long enough, all key signals, a priority region, optimal tonnage, scope, qualification
EmptyText == ""
Texts == {"short", "fit"}

\* hashlib.md5(raw_text.encode('utf-8')).hexdigest()
calculate_content_hash(raw_text) ==
    CASE raw_text = ""         -> "d41d8cd98f00b204e9800998ecf8427e"
      [] raw_text = "short"    -> "4f09daa9d95bcb166a302407a0e0babe"
      [] raw_text = "fit"      -> "1977c9daa1d67de51a4651abdb160c09"

\* what check_input_quality reads from a text; crawl_and_analyze passes extracted_fields={}
GateOf(raw_text) ==
    CASE raw_text = "short" ->
            [is_none |-> FALSE, len |-> 250, kw |-> {}, fld |-> {},
             ton_kw |-> FALSE, ton_fld |-> FALSE]
      [] raw_text = "fit" ->
            [is_none |-> FALSE, len |-> MinTextLen + 1, kw |-> KeySignals,
             fld |-> {}, ton_kw |-> TRUE, ton_fld |-> FALSE]

\* what rule_score reads from a text
RuleOf(raw_text) ==
    CASE raw_text = "short" ->
            [profile_ok |-> TRUE, region |-> 0, tonnage |-> None,
             type_hit |-> FALSE, pref_hit |-> FALSE, quals |-> 0]
      [] raw_text = "fit" ->
            [profile_ok |-> TRUE, region |-> 40, tonnage |-> Some(ScaleTarget),
             type_hit |-> TRUE, pref_hit |-> TRUE, quals |-> 1]

\* answers of the completion service during a crawl: unreachable, a number, a valid object
PipelineResponses ==
    {[kind |-> "raise", obj |-> NoObject],
     [kind |-> "json_number", obj |-> NoObject],
     [kind |-> "object",
      obj |-> [decision_state |-> "RECOMMEND", fit_label |-> "RECOMMEND",
               fit_score |-> RawScore("int", 85), summary |-> "SUM_PLAIN",
               others_ok |-> TRUE]]}

\* the functions one call of analyze_notice calls, in order
analyze_notice_calls(g, r, prompt_ok, resp) ==
    LET q == check_input_quality(g) IN
    IF q.status = "RAISED" THEN <<"check_input_quality">>
    ELSE LET a == analyze_after_gate(q, r, prompt_ok) IN
         IF a.pc = "done" THEN <<"check_input_quality">> \o a.calls
         ELSE <<"check_input_quality">> \o a.calls
              \o analyze_after_await(a.rule, a.mismatched, resp).calls

\* A notice of the list, once its detail page has been asked for (lines 545-551):
\*   detail  "fetched" the content came with the list item or crawl_notice_detail
\*           returned a page, "failed" crawl_notice_detail returned None
\*   text    extract_raw_text of that content
Details == {"fetched", "failed"}

NoticeOf(source_item_id, index, title, detail, text) ==
    [title |-> title,
     source_item_id |-> source_item_id,
     canonical_key |-> generate_canonical_key(source_item_id, index, title),
     detail |-> detail,
     text |-> IF detail = "failed" THEN EmptyText ELSE text]

\* session.query(Notice).filter(Notice.canonical_key == canonical_key)
RowsWithKey(st, canonical_key) == {row \in st : row.canonical_key = canonical_key}

\* faulty variant: the lookup never finds a row
get_notice_never_finds(st, canonical_key) == None

\* .first() of that query: None or the row
get_notice_by_canonical_key(st, canonical_key) ==
    IF RowsWithKey(st, canonical_key) = {} THEN None
    ELSE Some(CHOOSE row \in RowsWithKey(st, canonical_key) : TRUE)

\* faulty variant: the writes of save_notice leave analysis_json out
save_notice_without_analysis(st, n, raw_text, analysis_json) ==
    LET found == get_notice_by_canonical_key(st, n.canonical_key) IN
    IF ~IsNone(found)
    THEN (st \ {Val(found)})
         \cup {[Val(found) EXCEPT
                   !.title = n.title,
                   !.source_item_id = n.source_item_id,
                   !.raw_text = raw_text]}
    ELSE st \cup {[canonical_key |-> n.canonical_key,
                   title |-> n.title,
                   source_item_id |-> n.source_item_id,
                   raw_text |-> raw_text,
                   analysis_json |-> None]}

\* save_notice when the session works: update the row of the key or insert one
save_notice(st, n, raw_text, analysis_json) ==
    LET found == get_notice_by_canonical_key(st, n.canonical_key) IN
    IF ~IsNone(found)
    THEN (st \ {Val(found)})
         \cup {[Val(found) EXCEPT
                   !.title = n.title,
                   !.source_item_id = n.source_item_id,
                   !.raw_text = raw_text,
                   !.analysis_json = IF ~IsNone(analysis_json) THEN analysis_json ELSE @]}
    ELSE st \cup {[canonical_key |-> n.canonical_key,
                   title |-> n.title,
                   source_item_id |-> n.source_item_id,
                   raw_text |-> raw_text,
                   analysis_json |-> analysis_json]}

\* faulty variant: the hash comparison never finds the content unchanged
content_unchanged_never(existing, content_hash) == FALSE

\* lines 566-567: existing_hash == content_hash
content_unchanged(existing, content_hash) ==
    calculate_content_hash(existing.raw_text) = content_hash

\* What the environment does during one loop iteration:
\*   db    "ok", or the database session fails at the lookup / at the save
\*   resp  the answer of the completion service, if it is asked
IterationEnvs == [db : {"ok", "lookup_fails", "save_fails"}, resp : PipelineResponses]

IterationOutcome(st, outcome, looked_up, analysis, fn_calls, save, is_new) ==
    [store |-> st, outcome |-> outcome, looked_up |-> looked_up, analysis |-> analysis,
     calls |-> fn_calls, save |-> save, is_new |-> is_new]

\* faulty variant: a failed save is not rolled back, the row written so far stays
save_and_report_no_rollback(st, save_to_db, n, env, existing, analysis_json, fn_calls) ==
    IF ~save_to_db
    THEN IterationOutcome(st, "processed", FALSE, analysis_json, fn_calls, "none", TRUE)
    ELSE IterationOutcome(save_notice(st, n, n.text, analysis_json), "processed", TRUE,
                          analysis_json, fn_calls \o <<"save_notice">>,
                          IF env.db = "save_fails" THEN "failed" ELSE "saved",
                          IsNone(existing))

\* faulty variant: the save of step 5 ignores save_to_db
save_and_report_always(st, save_to_db, n, env, existing, analysis_json, fn_calls) ==
    IterationOutcome(save_notice(st, n, n.text, analysis_json), "processed", TRUE,
                     analysis_json, fn_calls \o <<"save_notice">>, "saved",
                     IsNone(existing))

\* lines 599-624: the save of step 5 and the entry appended to results
save_and_report(st, save_to_db, n, env, existing, analysis_json, fn_calls) ==
    IF ~save_to_db
    THEN IterationOutcome(st, "processed", FALSE, analysis_json, fn_calls, "none", TRUE)
    ELSE IF env.db = "save_fails"
    THEN IterationOutcome(st, "processed", TRUE, analysis_json,
                          fn_calls \o <<"save_notice">>, "failed", IsNone(existing))
    ELSE IterationOutcome(save_notice(st, n, n.text, analysis_json), "processed", TRUE,
                          analysis_json, fn_calls \o <<"save_notice">>, "saved",
                          IsNone(existing))

\* decision sources of the fallback decisions of analyze_notice
FallbackSources == {"LLM_ERROR", "LLM_PARSE_ERROR", "SCHEMA_ERROR", "FALLBACK"}

IsFallbackDecision(analysis_json) ==
    /\ ~IsNone(analysis_json)
    /\ Val(analysis_json).meta.decision_source \in FallbackSources

\* faulty variant: an unchanged notice whose stored decision is a fallback is analysed again
detect_and_analyze_retrying_fallbacks(st, save_to_db, analyze, n, env, existing) ==
    IF /\ ~IsNone(existing)
       /\ content_unchanged(Val(existing), calculate_content_hash(n.text))
       /\ ~IsFallbackDecision(Val(existing).analysis_json)
    THEN IterationOutcome(st, "unchanged", TRUE, None, <<>>, "none", TRUE)
    ELSE save_and_report(st, save_to_db, n, env, existing,
            IF analyze
            THEN Some(analyze_notice(GateOf(n.text), RuleOf(n.text), TRUE, env.resp))
            ELSE None,
            IF analyze
            THEN <<"analyze_notice">>
                 \o analyze_notice_calls(GateOf(n.text), RuleOf(n.text), TRUE, env.resp)
            ELSE <<>>)

\* lines 563-597: change detection against the looked-up row, then the analysis of step 4
detect_and_analyze(st, save_to_db, analyze, n, env, existing) ==
    IF ~IsNone(existing) /\ content_unchanged(Val(existing), calculate_content_hash(n.text))
    THEN IterationOutcome(st, "unchanged", TRUE, None, <<>>, "none", TRUE)
    ELSE save_and_report(st, save_to_db, n, env, existing,
            IF analyze
            THEN Some(analyze_notice(GateOf(n.text), RuleOf(n.text), TRUE, env.resp))
            ELSE None,
            IF analyze
            THEN <<"analyze_notice">>
                 \o analyze_notice_calls(GateOf(n.text), RuleOf(n.text), TRUE, env.resp)
            ELSE <<>>)

\* one iteration of the loop of crawl_and_analyze (lines 536-624) on notice n
crawl_iteration(st, save_to_db, analyze, n, env) ==
    IF n.detail = "failed"
    THEN IterationOutcome(st, "no_detail", FALSE, None, <<>>, "none", TRUE)
    ELSE IF n.text = EmptyText
    THEN IterationOutcome(st, "no_text", FALSE, None, <<>>, "none", TRUE)
    ELSE IF save_to_db /\ env.db = "lookup_fails"
    THEN IterationOutcome(st, "raised", TRUE, None, <<>>, "none", TRUE)
    ELSE detect_and_analyze(st, save_to_db, analyze, n, env,
            IF save_to_db THEN get_notice_by_canonical_key(st, n.canonical_key) ELSE None)

\* how the row of the notice's key stood in the Store before the iteration
StoredBefore(st, n) ==
    IF RowsWithKey(st, n.canonical_key) = {} THEN "none"
    ELSE IF \E row \in RowsWithKey(st, n.canonical_key) :
               calculate_content_hash(row.raw_text) = calculate_content_hash(n.text)
    THEN "same"
    ELSE "different"

MaxNotices == 2

NoIteration ==
    [notice |-> NoticeOf(NoSourceId, 0, "A", "failed", EmptyText),
     outcome |-> "none", stored_before |-> "none", looked_up |-> FALSE,
     analysis |-> None, calls |-> <<>>, save |-> "none", is_new |-> TRUE,
     store_changed |-> FALSE]

IdleRun == [status |-> "idle", save_to_db |-> FALSE, analyze |-> FALSE, i |-> 0]

\* the state after an iteration that did o on notice n, with the record of what it did
IterationDone(n, o) ==
    /\ store' = o.store
    /\ run' = [run EXCEPT !.i = @ + 1,
                          !.status = IF o.outcome = "raised" THEN "aborted" ELSE @]
    /\ last' = [notice |-> n,
                outcome |-> o.outcome,
                stored_before |-> IF n.text = EmptyText THEN "none" ELSE StoredBefore(store, n),
                looked_up |-> o.looked_up,
                analysis |-> o.analysis,
                calls |-> o.calls,
                save |-> o.save,
                is_new |-> o.is_new,
                store_changed |-> o.store # store]

\* the loop body on notice n in environment env
Iterate(n, env) ==
    IterationDone(n, crawl_iteration(store, run.save_to_db, run.analyze, n, env))

----------------------------------------------------------------------------
(* SpecCrawl: any number of runs of crawl_and_analyze, the list drawn item by item *)

\* list positions and the notices they can hold
ListIndexes == {0}

CrawlNotices ==
    {NoticeOf(sid, idx, "A", d, t) :
        sid \in {NoSourceId} \cup SourceIds, idx \in ListIndexes,
        d \in Details, t \in Texts \cup {EmptyText}}

CrawlInit ==
    /\ store = {}
    /\ run = IdleRun
    /\ prev = <<>>
    /\ last = NoIteration

\* lines 517-525: init_db when persistence is on, then the list is fetched
StartRun ==
    /\ run.status # "running"
    /\ \E save_to_db \in BOOLEAN, analyze \in BOOLEAN, db_ok \in BOOLEAN :
          run' = [status |-> IF save_to_db /\ ~db_ok THEN "aborted" ELSE "running",
                  save_to_db |-> save_to_db, analyze |-> analyze, i |-> 0]
    /\ last' = NoIteration
    /\ UNCHANGED <<store, prev>>
    /\ UNCHANGED <<analyzeVars, gateVars>>

\* lines 536-624: the next notice of notices[:max_notices]
ProcessNotice ==
    /\ run.status = "running"
    /\ run.i < MaxNotices
    /\ \E n \in CrawlNotices, env \in IterationEnvs : Iterate(n, env)
    /\ UNCHANGED prev
    /\ UNCHANGED <<analyzeVars, gateVars>>

\* the list is exhausted: return results
FinishRun ==
    /\ run.status = "running"
    /\ run' = [run EXCEPT !.status = "done"]
    /\ UNCHANGED <<store, prev, last>>
    /\ UNCHANGED <<analyzeVars, gateVars>>

InitCrawl == AnalyzeInit /\ GateIdle /\ CrawlInit

NextCrawl == StartRun \/ ProcessNotice \/ FinishRun

SpecCrawl == InitCrawl /\ [][NextCrawl]_vars

Iterated == last.outcome # "none"

AnalyzeNoticeCalls == Count("analyze_notice", last.calls)

\* C4 as stated: whenever the Store already holds a record with the key and the content
\* hash of the notice, the iteration is a no-op, whether or not the run persists.
C4_Original ==
    (Iterated /\ last.stored_before = "same")
        => /\ last.calls = <<>>
           /\ ~last.store_changed

\* C4: in a run with persistence enabled, a notice whose key the Store already holds
\* with the same content hash is a complete no-op: neither analyze_notice nor rule_score
\* nor the completion service nor save_notice is called and the Store is unchanged; and
\* analyze_notice is invoked for an already-stored key only when the content hash differs.
C4_UnchangedNoticeIsNoOp ==
    /\ (Iterated /\ run.save_to_db /\ last.stored_before = "same")
          => /\ last.calls = <<>>
             /\ IsNone(last.analysis)
             /\ last.save = "none"
             /\ ~last.store_changed
    /\ (Iterated /\ run.save_to_db /\ AnalyzeNoticeCalls > 0
            /\ last.stored_before # "none")
          => last.stored_before = "different"

\* C4 witness: a persisting, analysing run met a stored notice with unchanged content
\* whose row carries a decision, and skipped it
C4_Witness ==
    /\ Iterated
    /\ run.save_to_db
    /\ run.analyze
    /\ last.stored_before = "same"
    /\ last.outcome = "unchanged"
    /\ \E row \in store : /\ row.canonical_key = last.notice.canonical_key
                          /\ ~IsNone(row.analysis_json)

----------------------------------------------------------------------------
(* Properties of one loop iteration of crawl_and_analyze (SpecCrawl), continued *)

\* the notice of the last iteration has text and is new or changed against the Store
NewOrChanged ==
    /\ Iterated
    /\ last.notice.text # EmptyText
    /\ last.stored_before # "same"

\* the row of the last notice's key holds the decision of the last iteration
StoredDecisionIsLast ==
    \E row \in store : /\ row.canonical_key = last.notice.canonical_key
                       /\ row.raw_text = last.notice.text
                       /\ row.analysis_json = last.analysis

\* C13 as stated: with analysis enabled, every new or changed notice with text gets a
\* results entry with a non-null analysis, and with persistence enabled the stored
\* record of its key holds that decision.
C13_Original ==
    (NewOrChanged /\ run.analyze)
        => /\ last.outcome = "processed"
           /\ ~IsNone(last.analysis)
           /\ run.save_to_db => StoredDecisionIsLast

\* C13 amended: with analysis enabled, every new or changed notice with text whose Store
\* lookup did not fail gets a results entry with a non-null analysis; with persistence
\* enabled the stored record of its key holds that decision when save_notice succeeds,
\* and when save_notice fails the Store is left as it was while the results entry still
\* carries the decision. A failing lookup aborts the run before the notice is analysed.
C13_EveryNoticeGetsDecision ==
    (NewOrChanged /\ run.analyze)
        => \/ last.outcome = "raised" /\ run.status = "aborted" /\ IsNone(last.analysis)
           \/ /\ last.outcome = "processed"
              /\ ~IsNone(last.analysis)
              /\ Val(last.analysis).decision_state \in ValidStates
              /\ run.save_to_db =>
                    \/ last.save = "saved" /\ StoredDecisionIsLast
                    \/ last.save = "failed" /\ ~last.store_changed

\* C13 witness: a changed notice was analysed by the model and its row now holds the
\* new text and the new decision
C13_Witness ==
    /\ NewOrChanged
    /\ run.analyze
    /\ run.save_to_db
    /\ last.stored_before = "different"
    /\ last.save = "saved"
    /\ StoredDecisionIsLast
    /\ Val(last.analysis).meta.decision_source = "LLM"

----------------------------------------------------------------------------
(* Properties of a run of crawl_and_analyze and of the command line (SpecCrawl) *)

\* main.py lines 127-166: sys.exit(1) when crawl_and_analyze raised, else the
\* interpreter ends with status 0
exit_status(r) == IF r.status = "aborted" THEN 1 ELSE 0

\* C21 as stated: a failure of one notice never aborts the run, whereas a failure of the
\* Store when it is initialised, read or written aborts the run and makes the command
\* line exit with a non-zero status.
C21_StoreFailureAbortsRun ==
    /\ (Iterated /\ last.outcome \in {"no_detail", "no_text"}) => run.status # "aborted"
    /\ (Iterated /\ last.outcome = "raised")
          => run.status = "aborted" /\ exit_status(run) # 0
    /\ (Iterated /\ last.save = "failed")
          => run.status = "aborted" /\ exit_status(run) # 0

\* C24 as stated: for every notice processed past change detection, is_new is true
\* exactly when no stored record existed for its key, and false exactly when a record
\* existed with a different content hash.
C24_Original ==
    (Iterated /\ last.outcome = "processed")
        => /\ last.is_new <=> last.stored_before = "none"
           /\ ~last.is_new <=> last.stored_before = "different"

\* C24 amended: in a run with persistence enabled, for every notice processed past
\* change detection, is_new is true exactly when no stored record existed for its key
\* and false exactly when a record existed with a different content hash; in a run with
\* persistence disabled the Store is not consulted and is_new is always true.
C24_IsNewIffNoRecord ==
    /\ (Iterated /\ last.outcome = "processed" /\ run.save_to_db)
          => /\ last.is_new <=> last.stored_before = "none"
             /\ ~last.is_new <=> last.stored_before = "different"
    /\ (Iterated /\ last.outcome = "processed" /\ ~run.save_to_db) => last.is_new

\* C24 witness: a persisting run processed a notice whose stored record had another
\* content hash, and reported it as not new
C24_Witness ==
    /\ Iterated
    /\ last.outcome = "processed"
    /\ run.save_to_db
    /\ last.stored_before = "different"
    /\ ~last.is_new

\* C25: with persistence disabled a run performs no Store operation: init_db cannot
\* abort it, no iteration looks a key up or calls save_notice, and no step of the run
\* changes the Store; with analysis disabled no iteration invokes analyze_notice and
\* every result carries a null analysis.
C25_DisabledFlagsAreNoOps ==
    /\ [](/\ ~run.save_to_db => run.status # "aborted"
          /\ (Iterated /\ ~run.save_to_db)
                => /\ ~last.looked_up
                   /\ last.save = "none"
                   /\ ~InSeq("save_notice", last.calls)
                   /\ ~last.store_changed
          /\ (Iterated /\ ~run.analyze)
                => /\ AnalyzeNoticeCalls = 0
                   /\ IsNone(last.analysis))
    /\ [][~run.save_to_db => store' = store]_vars

\* C25 witness: a run without persistence and without analysis processed a notice whose
\* key the Store holds with other content, and left the Store alone
C25_Witness ==
    /\ Iterated
    /\ ~run.save_to_db
    /\ ~run.analyze
    /\ last.outcome = "processed"
    /\ last.stored_before = "different"
    /\ IsNone(last.analysis)

\* C34: when save_notice fails for a notice it rolls the session back and re-raises, so
\* the Store holds no partial change for that key (the previous record, if any, is
\* intact); crawl_and_analyze catches the failure, goes on with the remaining notices,
\* and still appends that notice to its results.
C34_SaveFailureIsConfined ==
    (Iterated /\ last.save = "failed")
        => /\ InSeq("save_notice", last.calls)
           /\ ~last.store_changed
           /\ last.outcome = "processed"
           /\ run.status # "aborted"
           /\ (run.status = "running" /\ run.i < MaxNotices) => ENABLED ProcessNotice

\* C34 witness: the save of a notice whose stored text differs failed; the old row is
\* still there, the notice was reported and the run goes on
C34_Witness ==
    /\ Iterated
    /\ last.save = "failed"
    /\ last.stored_before = "different"
    /\ ~last.store_changed
    /\ \E row \in RowsWithKey(store, last.notice.canonical_key) :
          row.raw_text # last.notice.text
    /\ last.outcome = "processed"
    /\ run.status = "running"

\* the decisions analyze_notice can compute from a text
AnalysesOf(raw_text) ==
    {analyze_notice(GateOf(raw_text), RuleOf(raw_text), TRUE, resp) : resp \in PipelineResponses}

\* C37 as stated: after any sequence of runs of crawl_and_analyze (with analysis enabled
\* or disabled in each run), every stored record with a non-null analysis_json holds an
\* analysis that was computed from that record's current raw_text.
C37_StoredAnalysisIsCurrent ==
    \A row \in store :
       ~IsNone(row.analysis_json) => Val(row.analysis_json) \in AnalysesOf(row.raw_text)

\* the Store holds the notice of the last iteration with the content it has now and a
\* fallback decision, and held it so before that iteration
StoredWithFallback ==
    /\ Iterated
    /\ last.stored_before = "same"
    /\ ~last.store_changed
    /\ \E row \in RowsWithKey(store, last.notice.canonical_key) :
          IsFallbackDecision(row.analysis_json)

\* C38 as stated: once a notice has been persisted with a fallback decision, every
\* later run in which its content hash is unchanged skips it, so the completion service
\* is never called again for it and the fallback decision stays stored.
C38_Original ==
    StoredWithFallback
        => /\ ~InSeq("call_ollama", last.calls)
           /\ AnalyzeNoticeCalls = 0

\* C38: once a notice has been persisted with a fallback decision, every later run with
\* persistence enabled in which its content hash is unchanged skips it without calling
\* analyze_notice or the completion service; and in every run, persisting or not, the
\* fallback decision stays stored while the content hash is unchanged.
C38_FallbackIsNotRetried ==
    /\ (Iterated /\ last.stored_before = "same") => ~last.store_changed
    /\ (StoredWithFallback /\ run.save_to_db)
          => /\ last.outcome \in {"unchanged", "raised"}
             /\ last.calls = <<>>
             /\ last.save = "none"

\* C38 witness: a persisting, analysing run met a notice stored with a fallback decision
\* and unchanged content, and skipped it
C38_Witness ==
    /\ StoredWithFallback
    /\ run.save_to_db
    /\ run.analyze
    /\ last.outcome = "unchanged"
    /\ last.calls = <<>>
    /\ \E row \in RowsWithKey(store, last.notice.canonical_key) :
          Val(row.analysis_json).meta.decision_source = "LLM_ERROR"

----------------------------------------------------------------------------
(* SpecRerun: a persisting run over a list snapshot, then a second run over the same
   snapshot with the same contents *)

MaxPages == 3

\* an item of a list page as the site serves it, with what its detail page will give
RawItems ==
    {[id |-> sid, title |-> title, detail |-> c[1], text |-> c[2]] :
        sid \in {NoSourceId} \cup SourceIds, title \in Titles,
        c \in {<<"failed", EmptyText>>, <<"fetched", "short">>, <<"fetched", "fit">>}}

\* A list snapshot: the items in the order of the site, and the positions after which
\* a new page starts. Ids, where the site gives them, are distinct.
ListSnapshots ==
    {[items |-> items, breaks |-> breaks] :
        items \in UNION {[1..len -> RawItems] : len \in 0..MaxNotices},
        breaks \in SUBSET (1..(MaxNotices - 1))}

WellFormedSnapshot(snap) ==
    /\ snap.breaks \subseteq 1..(Len(snap.items) - 1)
    /\ Cardinality(snap.breaks) + 1 <= MaxPages
    /\ \A j, k \in 1..Len(snap.items) :
          (j # k /\ snap.items[j].id = snap.items[k].id) => snap.items[j].id = NoSourceId

\* enumerate(items) of parse_api_response: the position of item k on its own page
page_index(k, breaks) ==
    LET before == {b \in breaks : b < k}
    IN IF before = {} THEN k - 1
       ELSE k - 1 - (CHOOSE b \in before : \A c \in before : c <= b)

\* crawl_notice_list: the pages parsed one by one and concatenated
crawl_notice_list(snap) ==
    [k \in 1..Len(snap.items) |->
        NoticeOf(snap.items[k].id, page_index(k, snap.breaks), snap.items[k].title,
                 snap.items[k].detail, snap.items[k].text)]

RerunInit ==
    /\ store = {}
    /\ \E snap \in ListSnapshots, analyze \in BOOLEAN :
          /\ WellFormedSnapshot(snap)
          /\ prev = [notices |-> crawl_notice_list(snap), phase |-> "first",
                     first_clean |-> TRUE, store_after_first |-> {},
                     second_analyses |-> 0]
          /\ run = [status |-> "running", save_to_db |-> TRUE, analyze |-> analyze, i |-> 0]
    /\ last = NoIteration

\* lines 536-624 on the next notice of the list
ProcessListed ==
    /\ run.status = "running"
    /\ run.i < Len(prev.notices)
    /\ \E env \in IterationEnvs : Iterate(prev.notices[run.i + 1], env)
    /\ prev' = [prev EXCEPT
                  !.first_clean =
                      IF prev.phase = "first"
                      THEN @ /\ last'.save # "failed" /\ last'.outcome # "raised"
                      ELSE @,
                  !.second_analyses =
                      IF prev.phase = "second" /\ InSeq("analyze_notice", last'.calls)
                      THEN @ + 1 ELSE @]
    /\ UNCHANGED <<analyzeVars, gateVars>>

\* the first run returns and crawl_and_analyze is called again, persistence enabled
RunAgain ==
    /\ prev.phase = "first"
    /\ run.status = "running"
    /\ run.i = Len(prev.notices)
    /\ \E analyze \in BOOLEAN :
          run' = [status |-> "running", save_to_db |-> TRUE, analyze |-> analyze, i |-> 0]
    /\ prev' = [prev EXCEPT !.phase = "second", !.store_after_first = store]
    /\ last' = NoIteration
    /\ UNCHANGED store
    /\ UNCHANGED <<analyzeVars, gateVars>>

\* the second run returns or is aborted by the Store
FinishRerun ==
    /\ prev.phase = "second"
    /\ \/ run.status = "running" /\ run.i = Len(prev.notices)
       \/ run.status = "aborted"
    /\ prev' = [prev EXCEPT !.phase = "finished"]
    /\ UNCHANGED <<store, run, last>>
    /\ UNCHANGED <<analyzeVars, gateVars>>

InitRerun == AnalyzeInit /\ GateIdle /\ RerunInit

NextRerun == ProcessListed \/ RunAgain \/ FinishRerun

SpecRerun == InitRerun /\ [][NextRerun]_vars

\* C5: after a persisting run that completed (no Store failure), a second run over the
\* same snapshot with the same contents invokes analyze_notice zero times and leaves
\* every stored record unchanged, also when several items lack a source id. (Two such
\* items at the same position of different pages with the same title share a key.)
C5_RerunIsNoOp ==
    (prev.phase = "finished" /\ prev.first_clean)
        => /\ prev.second_analyses = 0
           /\ store = prev.store_after_first

\* C15: within one list snapshot returned by crawl_notice_list, any two distinct notices
\* without a source id have distinct fallback keys. (The index restarts on every page
\* and every table, so equal titles at equal page positions share a key.)
C15_FallbackKeysDistinct ==
    \A j, k \in 1..Len(prev.notices) :
        (/\ j # k
         /\ prev.notices[j].source_item_id = NoSourceId
         /\ prev.notices[k].source_item_id = NoSourceId)
            => prev.notices[j].canonical_key # prev.notices[k].canonical_key

----------------------------------------------------------------------------
(* SpecKey: generate_canonical_key as parse_api_response and parse_notice_list call it,
   on two list items at a time *)

Urls == {"", "/consult/notice/1", "https://bid.powerchina.cn/consult/notice/2"}

\* a list item at its position: what the parsers read of it
KeyInputs ==
    [source_item_id : {NoSourceId} \cup SourceIds, index : 0..MaxNotices,
     title : Titles, url : Urls]

NoKey == [id |-> NoSourceId, index |-> 0, hash |-> ""]

\* lines 240 and 318: the key of a parsed item; the url is no argument of the call
key_of_item(item) == generate_canonical_key(item.source_item_id, item.index, item.title)

KeyInit ==
    /\ gin \in KeyInputs \X KeyInputs
    /\ gout = <<>>

GenerateKeys ==
    /\ gout = <<>>
    /\ gout' = <<key_of_item(gin[1]), key_of_item(gin[2])>>
    /\ UNCHANGED gin
    /\ UNCHANGED <<analyzeVars, crawlVars>>

InitKey == AnalyzeInit /\ KeyInit /\ CrawlIdle

NextKey == GenerateKeys

SpecKey == InitKey /\ [][NextKey]_vars

KeysGenerated == gout # <<>>

\* C14: for a non-empty source_item_id, generate_canonical_key returns the same key,
\* made of the prefix and the id alone, for every title, every list index and every url.
C14_IdKeyIgnoresTitleIndexUrl ==
    (KeysGenerated /\ gin[1].source_item_id # NoSourceId
        /\ gin[1].source_item_id = gin[2].source_item_id)
        => /\ gout[1] = gout[2]
           /\ gout[1].id = gin[1].source_item_id
           /\ gout[1] # NoKey

\* C14 witness: two items with the same id but another title, index and url got one key
C14_Witness ==
    /\ KeysGenerated
    /\ gin[1].source_item_id = "n7"
    /\ gin[2].source_item_id = "n7"
    /\ gin[1].title # gin[2].title
    /\ gin[1].index # gin[2].index
    /\ gin[1].url # gin[2].url
    /\ gout[1] = gout[2]

----------------------------------------------------------------------------
(* SpecFetch: one call of crawl_notice_detail, tier by tier *)

DirectMinSize == 5000
RenderedMinSize == 1000
RenderedAcceptSize == 5000
ByIdMinSize == 5000
ClickMinSize == 100

\* the tiers in the order of the code
TierOrder == <<"direct", "rendered", "by_id", "click">>

TierIndex(t) == CHOOSE k \in 1..Len(TierOrder) : TierOrder[k] = t

\* length of the content a tier gets; 0 when it gets none or raises inside
\* (every tier catches its own exceptions)
Sizes == {0, 3000, 6000}

ListedUrl == "https://bid.powerchina.cn/consult/notice/1"
RedirectedUrl == "https://bid.powerchina.cn/login?next=1"

\* Arguments of crawl_notice_detail and what the site will answer:
\*   notice       the list item: title, url, source_item_id, canonical_key, html_or_text
\*   has_row_index            row_index is not None
\*   use_playwright_fallback  the flag of the crawler object
\*   size         content length each tier would get
\*   redirected   the rendered page ends on another url than the one asked
FetchNotices ==
    {[title |-> "A", url |-> url, source_item_id |-> sid,
      canonical_key |-> generate_canonical_key(sid, 0, "A"),
      html_or_text |-> content] :
        url \in {"", ListedUrl}, sid \in {NoSourceId} \cup SourceIds,
        content \in {"", "inline"}}

FetchInputs ==
    [notice : FetchNotices, has_row_index : BOOLEAN, use_playwright_fallback : BOOLEAN,
     size : [1..Len(TierOrder) -> Sizes], redirected : BOOLEAN]

\* whether the code reaches tier k at all once the earlier tiers gave nothing
tier_applies(k, in) ==
    CASE k = 1 -> in.notice.url # ""
      [] k = 2 -> in.notice.url # "" /\ in.use_playwright_fallback
      [] k = 3 -> in.notice.source_item_id # NoSourceId
      [] k = 4 -> in.has_row_index

\* faulty variant: no tier ever reports a success
tier_succeeds_never(k, in) == FALSE

\* whether tier k hands content back to crawl_notice_detail
tier_succeeds(k, in) ==
    CASE k = 1 -> in.size[1] > DirectMinSize
      [] k = 2 -> in.size[2] > RenderedMinSize /\ in.size[2] > RenderedAcceptSize
      [] k = 3 -> in.size[3] > ByIdMinSize
      [] k = 4 -> in.size[4] > ClickMinSize

\* the first tier after tier k that the code reaches, 0 when there is none
next_tier(k, in) ==
    LET later == {j \in (k + 1)..Len(TierOrder) : tier_applies(j, in)}
    IN IF later = {} THEN 0 ELSE CHOOSE j \in later : \A i \in later : j <= i

\* faulty variant: the detail of a fetched page is keyed by the url it was read from
detail_of_rekeyed(k, in) ==
    [title |-> in.notice.title,
     url |-> IF k = 1 THEN in.notice.url
             ELSE IF k = 2 THEN (IF in.redirected THEN RedirectedUrl ELSE in.notice.url)
             ELSE "",
     source_item_id |-> in.notice.source_item_id,
     canonical_key |-> [id |-> IF k = 2 /\ in.redirected THEN RedirectedUrl
                               ELSE in.notice.url,
                        index |-> 0, hash |-> ""],
     html_or_text |-> TierOrder[k]]

\* the dict a successful tier returns
detail_of(k, in) ==
    [title |-> in.notice.title,
     url |-> IF k = 1 THEN in.notice.url
             ELSE IF k = 2 THEN (IF in.redirected THEN RedirectedUrl ELSE in.notice.url)
             ELSE "",
     source_item_id |-> in.notice.source_item_id,
     canonical_key |-> in.notice.canonical_key,
     html_or_text |-> TierOrder[k]]

\* lines 410-418: the list item carries its content
inline_detail(in) ==
    [title |-> in.notice.title, url |-> in.notice.url,
     source_item_id |-> in.notice.source_item_id,
     canonical_key |-> in.notice.canonical_key,
     html_or_text |-> in.notice.html_or_text]

FetchStart == [pc |-> "call", invoked |-> <<>>, returned |-> None]

FetchInit ==
    /\ gin \in FetchInputs
    /\ gout = FetchStart

\* where the call goes once tier k gave nothing: the next tier or "return None"
FallThrough(k) ==
    LET j == next_tier(k, gin) IN
    [gout EXCEPT !.pc = IF j = 0 THEN "done" ELSE TierOrder[j]]

\* lines 410-422: return the inline content or start the cascade
EnterDetail ==
    /\ gout.pc = "call"
    /\ gout' = IF gin.notice.html_or_text # ""
               THEN [gout EXCEPT !.pc = "done", !.returned = Some(inline_detail(gin))]
               ELSE FallThrough(0)
    /\ UNCHANGED gin
    /\ UNCHANGED <<analyzeVars, crawlVars>>

\* tier k runs and either returns its content or falls through
TierStep(k) ==
    /\ gout.pc = TierOrder[k]
    /\ gout' = IF tier_succeeds(k, gin)
               THEN [gout EXCEPT !.pc = "done",
                                 !.invoked = Append(@, TierOrder[k]),
                                 !.returned = Some(detail_of(k, gin))]
               ELSE [FallThrough(k) EXCEPT !.invoked = Append(@, TierOrder[k])]
    /\ UNCHANGED gin
    /\ UNCHANGED <<analyzeVars, crawlVars>>

\* fetch_page lines 133-138: the plain HTTP request
DirectFetch == TierStep(1)

\* fetch_page lines 140-146: fetch_html_with_playwright
RenderedFetch == TierStep(2)

\* lines 442-462: fetch_detail_with_playwright by item id
DetailById == TierStep(3)

\* lines 464-486: fetch_detail_with_playwright by a click on the list row
ClickRow == TierStep(4)

InitFetch == AnalyzeInit /\ FetchInit /\ CrawlIdle

NextFetch == EnterDetail \/ DirectFetch \/ RenderedFetch \/ DetailById \/ ClickRow

SpecFetch == InitFetch /\ [][NextFetch]_vars

\* the minimum content size the cascade asks of a tier
CascadeThreshold(t) ==
    CASE t = "direct"   -> 5000
      [] t = "rendered" -> 5000
      [] t = "by_id"    -> 5000
      [] t = "click"    -> 100

ContentAboveThreshold(t) == gin.size[TierIndex(t)] > CascadeThreshold(t)

\* C17: the fetch tiers of one notice run one after another in the fixed order direct,
\* rendered, by id, click; a tier is invoked only when no earlier tier gave content
\* above its threshold, and the cascade stops at the first tier that does: no tier is
\* invoked after a success.
C17_OrderedCascade ==
    LET inv == gout.invoked IN
    /\ \A i, j \in 1..Len(inv) : i < j => TierIndex(inv[i]) < TierIndex(inv[j])
    /\ \A i \in 1..Len(inv) :
          \A k \in 1..(TierIndex(inv[i]) - 1) :
             \/ ~tier_applies(k, gin)
             \/ InSeq(TierOrder[k], inv) /\ ~ContentAboveThreshold(TierOrder[k])
    /\ \A i \in 1..Len(inv) :
          ContentAboveThreshold(inv[i])
             => /\ i = Len(inv)
                /\ gout.pc = "done"
                /\ ~IsNone(gout.returned)
    /\ (gout.pc = "done" /\ IsNone(gout.returned))
          => \A k \in 1..Len(TierOrder) :
                tier_applies(k, gin) => InSeq(TierOrder[k], inv)

\* C17 witness: direct and rendered fetch gave too little, the fetch by id gave the
\* page, and the click was never tried
C17_Witness ==
    /\ gout.pc = "done"
    /\ gout.invoked = <<"direct", "rendered", "by_id">>
    /\ gin.size[2] = 3000
    /\ gin.size[4] = 6000
    /\ gin.has_row_index
    /\ ~IsNone(gout.returned)
    /\ Val(gout.returned).html_or_text = "by_id"

----------------------------------------------------------------------------
(* SpecPass: one run of crawl_and_analyze with the detail fetch of every notice
   resolved tier by tier *)

\* notice.update(detail): the keys of detail overwrite those of the notice
notice_update(notice, detail) ==
    [f \in DOMAIN notice \cup DOMAIN detail |->
        IF f \in DOMAIN detail THEN detail[f] ELSE notice[f]]

\* what the tiers give during a run: nothing at all, or a page from exactly one tier
PassSizes ==
    {[k \in 1..Len(TierOrder) |-> 0]}
    \cup {[k \in 1..Len(TierOrder) |-> IF k = j THEN 6000 ELSE 0] : j \in 1..Len(TierOrder)}

\* crawl_and_analyze builds the crawler with the rendered fallback on (line 522) and
\* always passes row_index=i-1 (line 548)
PassInputs ==
    {in \in FetchInputs :
        /\ in.has_row_index
        /\ in.use_playwright_fallback
        /\ in.size \in PassSizes
        /\ in.redirected => in.size[2] > 0}

\* the environment of the rest of an iteration: the Store as in IterationEnvs, the
\* completion service answering with a valid object
PassEnvs == {env \in IterationEnvs : env.resp.kind = "object"}

\* lines 545-546: crawl_notice_detail is called only for a notice without content
PassStart(in) ==
    IF in.notice.html_or_text # ""
    THEN [pc |-> "inline", invoked |-> <<>>, returned |-> None]
    ELSE FetchStart

\* the Store before the run: empty, or one row left by an earlier run
PassStores ==
    {{}} \cup
    {{[canonical_key |-> generate_canonical_key(sid, 0, "A"), title |-> "A",
       source_item_id |-> sid, raw_text |-> t, analysis_json |-> None]} :
        sid \in {NoSourceId} \cup SourceIds, t \in Texts}

PassInit ==
    /\ gin \in PassInputs
    /\ gout = PassStart(gin)
    /\ store \in PassStores
    /\ \E save_to_db \in BOOLEAN, analyze \in BOOLEAN :
          run = [status |-> "running", save_to_db |-> save_to_db,
                 analyze |-> analyze, i |-> 0]
    /\ prev = [store_before |-> store, failed |-> 0]
    /\ last = NoIteration

\* crawl_notice_detail returned None (line 549)
detail_failed(out) == out.pc = "done" /\ IsNone(out.returned)

\* faulty variant: a notice without detail is processed like any other
fetched_notice_ignoring_failure(in, out, text) ==
    [title |-> in.notice.title,
     source_item_id |-> in.notice.source_item_id,
     canonical_key |-> in.notice.canonical_key,
     detail |-> "fetched",
     text |-> text]

\* lines 545-555: the notice after notice.update(detail), with the text extracted
\* from its content
fetched_notice(in, out, text) ==
    LET merged == IF out.pc = "done" /\ ~IsNone(out.returned)
                  THEN notice_update(in.notice, Val(out.returned))
                  ELSE in.notice
    IN [title |-> merged.title,
        source_item_id |-> merged.source_item_id,
        canonical_key |-> merged.canonical_key,
        detail |-> IF detail_failed(out) THEN "failed" ELSE "fetched",
        text |-> IF detail_failed(out) THEN EmptyText ELSE text]

\* lines 549-624: the rest of the loop body once the detail call is over
MergeAndProcess ==
    /\ run.status = "running"
    /\ gout.pc \in {"done", "inline"}
    /\ \E text \in Texts \cup {EmptyText}, env \in PassEnvs :
          Iterate(fetched_notice(gin, gout, text), env)
    /\ gout' = [gout EXCEPT !.pc = "iterated"]
    /\ prev' = [store_before |-> store,
                failed |-> IF detail_failed(gout) THEN prev.failed + 1 ELSE prev.failed]
    /\ UNCHANGED gin
    /\ UNCHANGED analyzeVars

\* line 541: the loop moves to the next notice of notices[:max_notices]
NextNotice ==
    /\ run.status = "running"
    /\ gout.pc = "iterated"
    /\ run.i < MaxNotices
    /\ gin' \in PassInputs
    /\ gout' = PassStart(gin')
    /\ UNCHANGED crawlVars
    /\ UNCHANGED analyzeVars

InitPass == AnalyzeInit /\ PassInit

NextPass ==
    \/ EnterDetail \/ DirectFetch \/ RenderedFetch \/ DetailById \/ ClickRow
    \/ MergeAndProcess \/ NextNotice

SpecPass == InitPass /\ [][NextPass]_vars

\* the key the list parser gave the notice
ListedKey == generate_canonical_key(gin.notice.source_item_id, 0, gin.notice.title)

\* C16: the canonical_key a notice got when the list was parsed is never changed in the
\* pass: the detail returned by any tier carries it, also when the rendered page ended on
\* another url than the listed one, the merged notice still has it, the Store lookup
\* used it (is_new tells whether the Store held a row of that key) and the Store write
\* used it (the written row has that key and no row of another key appeared or changed).
C16_KeyUnchangedInPass ==
    /\ gin.notice.canonical_key = ListedKey
    /\ ~IsNone(gout.returned) => Val(gout.returned).canonical_key = ListedKey
    /\ (gout.pc = "iterated" /\ Iterated)
          => /\ last.notice.canonical_key = ListedKey
             /\ (last.looked_up /\ last.outcome = "processed")
                   => (last.is_new <=> RowsWithKey(prev.store_before, ListedKey) = {})
             /\ last.save = "saved"
                   => /\ \E row \in store : /\ row.canonical_key = ListedKey
                                            /\ row.raw_text = last.notice.text
                      /\ \A row \in store :
                            row.canonical_key # ListedKey => row \in prev.store_before

\* C16 witness: the rendered fetch ended on another url than the listed one, the notice
\* was saved, and its row is stored under the listed key
C16_Witness ==
    /\ gout.pc = "iterated"
    /\ gout.invoked = <<"direct", "rendered">>
    /\ ~IsNone(gout.returned)
    /\ Val(gout.returned).url = RedirectedUrl
    /\ gin.notice.url = ListedUrl
    /\ last.save = "saved"
    /\ \E row \in store : row.canonical_key = ListedKey /\ row.raw_text = last.notice.text

\* every tier the code reaches for the notice gives no content above its threshold
AllTiersFail ==
    /\ gin.notice.html_or_text = ""
    /\ \A k \in 1..Len(TierOrder) :
          tier_applies(k, gin) => ~ContentAboveThreshold(TierOrder[k])

\* C18: when every fetch tier fails for a notice, crawl_notice_detail returns None;
\* crawl_and_analyze then calls neither the analysis nor the Store for that notice,
\* leaves the Store as it was, and the run goes on: it is still running and the next
\* notice of the list, if there is one, is taken up.
C18_FetchFailureIsConfined ==
    /\ (gout.pc = "done" /\ AllTiersFail) => IsNone(gout.returned)
    /\ (gout.pc = "iterated" /\ AllTiersFail)
          => /\ last.outcome = "no_detail"
             /\ last.calls = <<>>
             /\ IsNone(last.analysis)
             /\ ~last.looked_up
             /\ last.save = "none"
             /\ store = prev.store_before
             /\ run.status = "running"
             /\ run.i < MaxNotices => ENABLED NextNotice

\* C18 witness: after a notice of the run had all its tiers fail, a later notice of the
\* same run was fetched, analysed and saved
C18_Witness ==
    /\ gout.pc = "iterated"
    /\ prev.failed > 0
    /\ ~AllTiersFail
    /\ last.outcome = "processed"
    /\ last.save = "saved"
    /\ ~IsNone(last.analysis)

----------------------------------------------------------------------------
(* SpecList: one call of crawl_notice_list(max_pages=3), tier by tier *)

\* how many notices a page can parse to
PageCounts == {0, 1, 2}

\* What the site answers during the call:
\*   api_found   find_api_endpoint got a dict with 'data', 'list' or 'records' from a probe
\*   api_pages   the notices parse_api_response gets from page p under the best of the
\*               three parameter shapes
\*   html_ok     fetch_page of the list page returns content
\*   html_count  the notices parse_notice_list gets from that content
ListInputs ==
    [api_found : BOOLEAN, api_pages : [1..MaxPages -> PageCounts],
     html_ok : BOOLEAN, html_count : PageCounts]

ListStart == [pc |-> "find", calls |-> <<>>, page |-> 0, notices |-> 0]

ListInit ==
    /\ gin \in ListInputs
    /\ gout = ListStart

\* line 369: api_url = await self.find_api_endpoint(), then the branch of line 371
FindApiEndpoint ==
    /\ gout.pc = "find"
    /\ gout' = [gout EXCEPT !.calls = Append(@, "find_api_endpoint"),
                            !.pc = IF gin.api_found THEN "api" ELSE "html",
                            !.page = IF gin.api_found THEN 1 ELSE 0]
    /\ UNCHANGED gin
    /\ UNCHANGED <<analyzeVars, crawlVars>>

\* lines 373-390: one page of the API; a page without notices ends the loop
FetchApiPage ==
    /\ gout.pc = "api"
    /\ LET got == gin.api_pages[gout.page] IN
       gout' = [gout EXCEPT !.calls = Append(@, "fetch_api"),
                            !.notices = @ + got,
                            !.pc = IF got = 0 \/ gout.page = MaxPages
                                   THEN "done" ELSE "api",
                            !.page = IF got = 0 \/ gout.page = MaxPages
                                     THEN @ ELSE @ + 1]
    /\ UNCHANGED gin
    /\ UNCHANGED <<analyzeVars, crawlVars>>

\* lines 391-398: the HTML list page through fetch_page(use_fallback=True)
FetchHtmlList ==
    /\ gout.pc = "html"
    /\ gout' = [gout EXCEPT !.calls = Append(@, "fetch_page"),
                            !.notices = IF gin.html_ok THEN @ + gin.html_count ELSE @,
                            !.pc = "done"]
    /\ UNCHANGED gin
    /\ UNCHANGED <<analyzeVars, crawlVars>>

InitList == AnalyzeInit /\ ListInit /\ CrawlIdle

NextList == FindApiEndpoint \/ FetchApiPage \/ FetchHtmlList

SpecList == InitList /\ [][NextList]_vars

\* C19 as stated: whenever crawl_notice_list returns and the API tier gave no notices
\* (no endpoint found, or an endpoint whose pages parse to zero notices), the HTML list
\* fetch was attempted.
C19_EmptyApiFallsThroughToHtml ==
    (gout.pc = "done" /\ (~gin.api_found \/ gin.api_pages[1] = 0))
        => InSeq("fetch_page", gout.calls)

----------------------------------------------------------------------------
(* SpecSave: concurrent calls of save_notice, each with a session of its own, against
   one notices table *)

\* the tasks or processes that call save_notice
Callers == {"c1", "c2"}

\* A caller: where it is in save_notice (pc), its arguments, whether the table held a
\* row of its key when it called (existed), the id its query found, how the call ended
\* and whether its commit added a row (grew)

SaveKeys == {generate_canonical_key(sid, 0, "A") : sid \in {NoSourceId} \cup SourceIds}

IdleCaller ==
    [pc |-> "idle", canonical_key |-> generate_canonical_key(NoSourceId, 0, "A"),
     raw_text |-> EmptyText, existed |-> FALSE, found |-> None, outcome |-> "none",
     grew |-> FALSE]

\* Notice.id: autoincrement primary key
next_id(table) ==
    IF table = {} THEN 1
    ELSE 1 + (CHOOSE i \in {row.id : row \in table} : \A row \in table : row.id <= i)

\* faulty variant: the table has no unique index on canonical_key
unique_violation_never(table, canonical_key) == FALSE

\* models.py line 24, unique=True: an INSERT of a key the table holds is refused
unique_violation(table, canonical_key) == RowsWithKey(table, canonical_key) # {}

SaveInit ==
    /\ store = {}
    /\ run = [c \in Callers |-> IdleCaller]
    /\ prev = <<>>
    /\ last = <<>>

\* lines 12-43: the call, with its arguments and a fresh session
CallSave(c) ==
    /\ run[c].pc = "idle"
    /\ \E key \in SaveKeys, text \in Texts :
          run' = [run EXCEPT ![c] = [IdleCaller EXCEPT
                                        !.pc = "query",
                                        !.canonical_key = key,
                                        !.raw_text = text,
                                        !.existed = RowsWithKey(store, key) # {}]]
    /\ UNCHANGED <<store, prev, last>>
    /\ UNCHANGED <<analyzeVars, gateVars>>

\* line 46: session.query(Notice).filter(Notice.canonical_key == canonical_key).first()
QueryFirst(c) ==
    /\ run[c].pc = "query"
    /\ \/ /\ RowsWithKey(store, run[c].canonical_key) = {}
          /\ run' = [run EXCEPT ![c].pc = "commit", ![c].found = None]
       \/ \E row \in RowsWithKey(store, run[c].canonical_key) :
             run' = [run EXCEPT ![c].pc = "commit", ![c].found = Some(row.id)]
    /\ UNCHANGED <<store, prev, last>>
    /\ UNCHANGED <<analyzeVars, gateVars>>

\* lines 48-74: the UPDATE of the found row or the INSERT of a new one reaches the
\* table at session.commit(); db_ok = FALSE is a commit the database refuses for a
\* reason of its own. Lines 76-79: a refused commit is rolled back and re-raised.
CommitSave(c) ==
    /\ run[c].pc = "commit"
    /\ \E db_ok \in BOOLEAN :
          LET me == run[c]
              refused == \/ ~db_ok
                         \/ IsNone(me.found) /\ unique_violation(store, me.canonical_key)
              table == IF refused THEN store
                       ELSE IF IsNone(me.found)
                       THEN store \cup {[id |-> next_id(store),
                                         canonical_key |-> me.canonical_key,
                                         raw_text |-> me.raw_text]}
                       ELSE {IF row.id = Val(me.found)
                             THEN [row EXCEPT !.raw_text = me.raw_text] ELSE row :
                                row \in store}
          IN /\ store' = table
             /\ run' = [run EXCEPT ![c].pc = "returned",
                                   ![c].outcome = IF refused THEN "raised"
                                                  ELSE IF IsNone(me.found) THEN "inserted"
                                                  ELSE "updated",
                                   ![c].grew = Cardinality(table) > Cardinality(store)]
    /\ UNCHANGED <<prev, last>>
    /\ UNCHANGED <<analyzeVars, gateVars>>

\* lines 80-82: the session is closed and the caller goes on
ReturnSave(c) ==
    /\ run[c].pc = "returned"
    /\ run' = [run EXCEPT ![c] = IdleCaller]
    /\ UNCHANGED <<store, prev, last>>
    /\ UNCHANGED <<analyzeVars, gateVars>>

InitSave == AnalyzeInit /\ GateIdle /\ SaveInit

NextSave ==
    \E c \in Callers : CallSave(c) \/ QueryFirst(c) \/ CommitSave(c) \/ ReturnSave(c)

SpecSave == InitSave /\ [][NextSave]_vars

\* C20: under every interleaving of save_notice calls the table holds at most one row
\* per canonical_key, also when two concurrent calls for one key both found no row; a
\* call for a key that had a row when the call was made finds that row, and a call that
\* found a row updates it, or fails when the database refuses the commit, and never
\* adds a row; a call that found none adds at most the one row of its key, and is
\* refused when another call has inserted the key in the meantime.
C20_OneRecordPerKey ==
    /\ \A key \in SaveKeys : Cardinality(RowsWithKey(store, key)) <= 1
    /\ \A c \in Callers :
          (run[c].existed /\ run[c].pc \in {"commit", "returned"})
              => ~IsNone(run[c].found)
    /\ \A c \in Callers :
          run[c].pc = "returned" =>
             /\ ~IsNone(run[c].found) =>
                   /\ run[c].outcome \in {"updated", "raised"}
                   /\ ~run[c].grew
                   /\ \E row \in store : /\ row.id = Val(run[c].found)
                                         /\ row.canonical_key = run[c].canonical_key
             /\ run[c].grew <=> run[c].outcome = "inserted"
             /\ run[c].outcome = "inserted" =>
                   RowsWithKey(store, run[c].canonical_key) # {}

\* C20 witness: two concurrent calls for one key both found no row; one inserted, the
\* other was refused, and the table holds one row of the key
C20_Witness ==
    \E c, d \in Callers :
       /\ c # d
       /\ run[c].pc = "returned" /\ run[d].pc = "returned"
       /\ run[c].canonical_key = run[d].canonical_key
       /\ IsNone(run[c].found) /\ IsNone(run[d].found)
       /\ run[c].outcome = "inserted"
       /\ run[d].outcome = "raised"
       /\ Cardinality(RowsWithKey(store, run[c].canonical_key)) = 1

----------------------------------------------------------------------------
(* SpecPure: the pure functions of the analyzer, each applied once to an argument
   tuple: normalize_fit_label, check_consistency, is_clearly_mismatched, rule_score *)

\* labels a caller can pass to normalize_fit_label; PyNone is Python's None
LabelInputs ==
    {"RECOMMEND", " recommend ", "REVIEW", "Review", "SKIP", "skip", "UNKNOWN",
     "unknown ", "", "   ", "-", "NULL", "null", "NONE", PyNone, "N/A", "n/a", "maybe"}

\* result dicts passed to check_consistency: a model_dump with every label, with and
\* without decision_state, scores around the thresholds, three summaries
ConsistencyResults ==
    {[model_dump(NoObject) EXCEPT !.fit_label = l, !.decision_state = d,
                                  !.fit_score = s, !.summary = m] :
        l \in {"RECOMMEND", " recommend ", "REVIEW", "SKIP", "UNKNOWN", "maybe"},
        d \in {Absent, "RECOMMEND", "SKIP"},
        s \in {None} \cup {Some(v) : v \in {0, 30, 35, 40, 41, 79, 80, 85, 100}},
        m \in {"", "SUM_PLAIN", "SUM_INFO_INSUFFICIENT"}}

\* reason and flag lists as rule_score writes them, and lists of other callers
ReasonLists ==
    {<<>>, <<"NO_MATCH">>, <<"REGION_MATCH">>, <<"SCALE_MATCH", "TONNAGE_EXTRACTED">>,
     <<"SCOPE_MATCH", "QUAL_MATCH">>}

FlagLists ==
    {<<>>, <<"REGION_NOT_PRIORITY">>, <<"SCALE_OUT_OF_RANGE_DETAIL">>, <<"SCOPE_LOW">>,
     <<"QUAL_LOW">>, <<"SCALE_OUT_OF_RANGE_DETAIL", "QUAL_LOW">>,
     <<"REGION_NOT_PRIORITY", "SCOPE_LOW", "QUAL_LOW">>, <<"OTHER_FLAG">>}

PureInputs ==
    [fn : {"normalize_fit_label"}, label : LabelInputs]
    \cup [fn : {"check_consistency"}, result : ConsistencyResults,
          rule_score : {5, 50}, rule_is_mismatched : BOOLEAN]
    \cup [fn : {"is_clearly_mismatched"}, score : {0, 5, 9, 10, 15, 19, 20, 50},
          reasons : ReasonLists, risk_flags : FlagLists]
    \cup [fn : {"rule_score"}, r : RuleInputs]

NotApplied == [done |-> FALSE, value |-> <<>>]

PureInit ==
    /\ gin \in PureInputs
    /\ gout = NotApplied

\* analyzer.py lines 18-41
NormalizeFitLabel ==
    /\ gin.fn = "normalize_fit_label"
    /\ ~gout.done
    /\ gout' = [done |-> TRUE, value |-> normalize_fit_label(gin.label)]
    /\ UNCHANGED gin
    /\ UNCHANGED <<analyzeVars, crawlVars>>

\* analyzer.py lines 44-87
CheckConsistency ==
    /\ gin.fn = "check_consistency"
    /\ ~gout.done
    /\ gout' = [done |-> TRUE,
                value |-> check_consistency(gin.result, gin.rule_score,
                                            gin.rule_is_mismatched)]
    /\ UNCHANGED gin
    /\ UNCHANGED <<analyzeVars, crawlVars>>

\* score_rules.py lines 239-278
IsClearlyMismatched ==
    /\ gin.fn = "is_clearly_mismatched"
    /\ ~gout.done
    /\ gout' = [done |-> TRUE,
                value |-> is_clearly_mismatched(gin.score, gin.reasons, gin.risk_flags)]
    /\ UNCHANGED gin
    /\ UNCHANGED <<analyzeVars, crawlVars>>

\* score_rules.py lines 166-236
RuleScore ==
    /\ gin.fn = "rule_score"
    /\ ~gout.done
    /\ gout' = [done |-> TRUE, value |-> rule_score(gin.r)]
    /\ UNCHANGED gin
    /\ UNCHANGED <<analyzeVars, crawlVars>>

InitPure == AnalyzeInit /\ PureInit /\ CrawlIdle

NextPure == NormalizeFitLabel \/ CheckConsistency \/ IsClearlyMismatched \/ RuleScore

SpecPure == InitPure /\ [][NextPure]_vars

Applied(fn) == gin.fn = fn /\ gout.done

\* C26 as stated: for every result passed to check_consistency with rule_is_mismatched
\* = true and a label that normalises to RECOMMEND, the returned result has fit_label =
\* decision_state = SKIP and a fit_score of at most 30, whatever the incoming fit_score
\* and summary are.
C26_MismatchForcesSkip ==
    (/\ Applied("check_consistency")
     /\ gin.rule_is_mismatched
     /\ gin.result.fit_label \in {"RECOMMEND", " recommend "})
        => /\ gout.value.fit_label = "SKIP"
           /\ gout.value.decision_state = "SKIP"
           /\ ~IsNone(gout.value.fit_score) => Val(gout.value.fit_score) <= 30

\* C29: normalize_fit_label maps every input to one of RECOMMEND, REVIEW, SKIP, UNKNOWN:
\* a valid state in any letter case and with surrounding blanks to that state, a blank
\* or unknown-synonym value (empty, '-', NULL, NONE, N/A, Python's None) to UNKNOWN, and
\* every other value to REVIEW.
C29_LabelNormalised ==
    Applied("normalize_fit_label") =>
       /\ gout.value \in {"RECOMMEND", "REVIEW", "SKIP", "UNKNOWN"}
       /\ gin.label \in {"RECOMMEND", " recommend "} => gout.value = "RECOMMEND"
       /\ gin.label \in {"REVIEW", "Review"} => gout.value = "REVIEW"
       /\ gin.label \in {"SKIP", "skip"} => gout.value = "SKIP"
       /\ gin.label \in {"UNKNOWN", "unknown "} => gout.value = "UNKNOWN"
       /\ gin.label \in {"", "   ", "-", "NULL", "null", "NONE", PyNone, "N/A", "n/a"}
             => gout.value = "UNKNOWN"
       /\ gin.label = "maybe" => gout.value = "REVIEW"

\* C29 witness: a lower-case label with surrounding blanks came out as its state
C29_Witness ==
    /\ Applied("normalize_fit_label")
    /\ gin.label = " recommend "
    /\ gout.value = "RECOMMEND"

\* the flags rule_score writes for a region outside the priority range, a scale outside
\* the target range, a low scope match and an unmatched qualification
SpecificNegativeFlags ==
    {"REGION_NOT_PRIORITY", "SCALE_OUT_OF_RANGE_DETAIL", "SCOPE_LOW", "QUAL_LOW"}

\* C30 as stated: is_clearly_mismatched(score, reasons, risk_flags) is true exactly when
\* (score < 10 and risk_flags contains at least one specific negative flag) or
\* (score < 20 and no reason is the catch-all reason); in every other case it is false.
C30_MismatchedExactlyWhen ==
    Applied("is_clearly_mismatched") =>
       (gout.value.mismatched
           <=> \/ /\ gin.score < 10
                  /\ \E f \in SpecificNegativeFlags : InSeq(f, gin.risk_flags)
               \/ /\ gin.score < 20
                  /\ ~InSeq("NO_MATCH", gin.reasons))

\* rule_score returned a triple for the text of gin
RuleScored == Applied("rule_score") /\ gout.value.status = "OK"

\* C31 as stated: rule_score emits a risk flag for each of the four factors (region,
\* scale, scope, qualification) whose sub-score is zero, including the scale factor
\* when no tonnage could be extracted, and no risk flag for a factor whose sub-score is
\* positive.
C31_FlagPerZeroFactor ==
    RuleScored =>
       /\ InSeq("REGION_NOT_PRIORITY", gout.value.risk_flags)
             <=> extract_region_score(gin.r) = 0
       /\ InSeq("SCALE_OUT_OF_RANGE_DETAIL", gout.value.risk_flags)
             <=> score_scale(gin.r.tonnage).score = 0
       /\ InSeq("SCOPE_LOW", gout.value.risk_flags) <=> score_scope(gin.r) = 0
       /\ InSeq("QUAL_LOW", gout.value.risk_flags) <=> score_qualification(gin.r) = 0

\* the sum of the four sub-scores of the text of gin
SubScoreSum ==
    extract_region_score(gin.r) + score_scale(gin.r.tonnage).score
    + score_scope(gin.r) + score_qualification(gin.r)

\* C32: the total rule_score returns is min(100, region + scale + scope + qualification
\* sub-scores) and so an integer in [0,100], for every text and extracted fields.
C32_TotalIsCappedSum ==
    RuleScored =>
       /\ gout.value.score = Min(100, SubScoreSum)
       /\ gout.value.score \in 0..100

\* C32 witness: a text whose four sub-scores add up to more than 100 scored 100
C32_Witness ==
    /\ RuleScored
    /\ SubScoreSum > 100
    /\ gout.value.score = 100

----------------------------------------------------------------------------
(* SpecRender: one call of fetch_html_with_playwright, attempt by attempt
   (powerchina_crawler_playwright.py) *)

MaxRetries == 3

BackoffSeconds == 2

\* len(html) of the rendered page: empty, at the threshold, just above it, a full page
RenderSizes == {0, RenderedMinSize, RenderedMinSize + 1, 6000}

\* arguments of fetch_html_with_playwright
RenderInputs == [url : {ListedUrl}, retries : 0..MaxRetries]

RenderStart == [pc |-> "enter", attempt |-> 0, trace |-> <<>>, value |-> None]

RenderInit ==
    /\ gin \in RenderInputs
    /\ gout = RenderStart

\* what one pass of the loop body leaves in the trace
AttemptEvent(attempt, raised, size) ==
    [ev |-> "attempt", attempt |-> attempt, raised |-> raised, size |-> size]

SleepEvent == [ev |-> "sleep", attempt |-> 0, raised |-> FALSE, size |-> BackoffSeconds]

\* lines 272-281 and 32-41: the context manager starts the browser; any exception of it
\* is caught by the wrapper, which returns None
EnterFetcher ==
    /\ gout.pc = "enter"
    /\ \E started \in BOOLEAN :
          gout' = IF started
                  THEN [gout EXCEPT !.pc = "loop", !.attempt = 1]
                  ELSE [gout EXCEPT !.pc = "done", !.value = None]
    /\ UNCHANGED gin
    /\ UNCHANGED <<analyzeVars, crawlVars>>

\* line 63: for attempt in range(1, self.retries + 1)
attempts_left(attempt, retries) == attempt <= retries

\* lines 64-95 without the sleep: goto, content, the size test, the except clause
GotoAndRead ==
    /\ gout.pc = "loop"
    /\ attempts_left(gout.attempt, gin.retries)
    /\ \/ \E final_url \in {ListedUrl, RedirectedUrl}, size \in RenderSizes :
             gout' = IF size > RenderedMinSize
                     THEN [gout EXCEPT !.pc = "done",
                                       !.trace = @ \o <<AttemptEvent(gout.attempt, FALSE, size)>>,
                                       !.value = Some([size |-> size, final_url |-> final_url])]
                     ELSE [gout EXCEPT !.attempt = @ + 1,
                                       !.trace = @ \o <<AttemptEvent(gout.attempt, FALSE, size)>>]
       \/ gout' = [gout EXCEPT !.pc = IF gout.attempt < gin.retries THEN "sleep" ELSE "loop",
                               !.attempt = IF gout.attempt < gin.retries THEN @ ELSE @ + 1,
                               !.trace = @ \o <<AttemptEvent(gout.attempt, TRUE, 0)>>]
    /\ UNCHANGED gin
    /\ UNCHANGED <<analyzeVars, crawlVars>>

\* line 95: await asyncio.sleep(2) returns
Backoff ==
    /\ gout.pc = "sleep"
    /\ gout' = [gout EXCEPT !.pc = "loop", !.attempt = @ + 1, !.trace = @ \o <<SleepEvent>>]
    /\ UNCHANGED gin
    /\ UNCHANGED <<analyzeVars, crawlVars>>

\* lines 97-98: the loop is exhausted
ReturnNone ==
    /\ gout.pc = "loop"
    /\ ~attempts_left(gout.attempt, gin.retries)
    /\ gout' = [gout EXCEPT !.pc = "done", !.value = None]
    /\ UNCHANGED gin
    /\ UNCHANGED <<analyzeVars, crawlVars>>

InitRender == AnalyzeInit /\ RenderInit /\ CrawlIdle

NextRender == EnterFetcher \/ GotoAndRead \/ Backoff \/ ReturnNone

SpecRender == InitRender /\ [][NextRender]_vars

Attempts == {i \in 1..Len(gout.trace) : gout.trace[i].ev = "attempt"}

\* C33 as stated: the rendered fetch makes at most 'retries' attempts, returns at the
\* first attempt whose content is above the size threshold, waits a fixed backoff
\* between any two consecutive attempts (whether the earlier attempt raised or merely
\* returned too little content), and after the last attempt returns a failure value
\* rather than raising.
C33_BoundedRetriesWithBackoff ==
    /\ Cardinality(Attempts) <= gin.retries
    /\ \A i \in Attempts :
          (~gout.trace[i].raised /\ gout.trace[i].size > RenderedMinSize)
             => /\ i = Len(gout.trace)
                /\ gout.pc = "done"
                /\ ~IsNone(gout.value)
                /\ Val(gout.value).size = gout.trace[i].size
    /\ \A i \in Attempts : (i + 1) \notin Attempts
    /\ (gout.pc = "done" /\ ~IsNone(gout.value))
          => \E i \in Attempts : ~gout.trace[i].raised /\ gout.trace[i].size > RenderedMinSize

=============================================================================
